---------------------------- MODULE Spec2Model ----------------------------
(***************************************************************************)
(* A model of the voxel-puzzle scene: App (params state and its handlers),  *)
(* PuzzleScene (params effect, rebuildPuzzle, animate, pointer handlers,    *)
(* exportSTL) and the pure membership test isPointInShape.                  *)
(*                                                                          *)
(* Numbers.  The program computes in IEEE doubles; the model computes the   *)
(* same expressions exactly:                                                *)
(*   - a grid point or a local point is an integer vector over a common     *)
(*     positive denominator, [v |-> <<x,y,z>>, d |-> D];                     *)
(*   - an animation scalar (explode, noise, their smoothed values) is an    *)
(*     exact fraction n / (FixDen * LerpDen^e), [n |-> big natural,         *)
(*     e |-> k, u |-> LerpDen^k], kept in lowest exponent, so equal values  *)
(*     are equal terms;                                                     *)
(*   - big naturals are little-endian sequences of base-BigBase limbs since *)
(*     LerpDen^e leaves the machine integers after a few ticks.             *)
(* Values the program derives with sqrt/sin/cos (a normalised vector, an    *)
(* animated offset, a colour ramp) are kept as the term that determines     *)
(* them (the direction and the divisor, the inputs of the offset, t^2).     *)
(***************************************************************************)
EXTENDS Integers, Sequences, FiniteSets, TLC

(***************************************************************************)
(* Big naturals                                                             *)
(***************************************************************************)
BigBase == 10 ^ 4

RECURSIVE BigTrim(_)
BigTrim(a) ==
    IF a = <<>> THEN <<>>
    ELSE IF a[Len(a)] = 0 THEN BigTrim(SubSeq(a, 1, Len(a) - 1))
    ELSE a

RECURSIVE BigFromNat(_)
BigFromNat(k) ==
    IF k = 0 THEN <<>> ELSE <<k % BigBase>> \o BigFromNat(k \div BigBase)

BigLimb(a, i) == IF i <= Len(a) THEN a[i] ELSE 0

BigMaxLen(a, b) == IF Len(a) >= Len(b) THEN Len(a) ELSE Len(b)

RECURSIVE BigAddFrom(_, _, _, _)
BigAddFrom(a, b, i, carry) ==
    IF i > BigMaxLen(a, b)
    THEN (IF carry = 0 THEN <<>> ELSE <<carry>>)
    ELSE LET s == BigLimb(a, i) + BigLimb(b, i) + carry
         IN  <<s % BigBase>> \o BigAddFrom(a, b, i + 1, s \div BigBase)

BigAdd(a, b) == BigTrim(BigAddFrom(a, b, 1, 0))

\* -1, 0, 1 as a < b, a = b, a > b (both trimmed)
RECURSIVE BigCmpFrom(_, _, _)
BigCmpFrom(a, b, i) ==
    IF i = 0 THEN 0
    ELSE IF a[i] < b[i] THEN -1
    ELSE IF a[i] > b[i] THEN 1
    ELSE BigCmpFrom(a, b, i - 1)

BigCmp(a, b) ==
    IF Len(a) < Len(b) THEN -1
    ELSE IF Len(a) > Len(b) THEN 1
    ELSE BigCmpFrom(a, b, Len(a))

BigLeq(a, b) == BigCmp(a, b) <= 0

\* a - b for a >= b
RECURSIVE BigSubFrom(_, _, _, _)
BigSubFrom(a, b, i, borrow) ==
    IF i > Len(a) THEN <<>>
    ELSE LET s == a[i] - BigLimb(b, i) - borrow
         IN  IF s < 0
             THEN <<s + BigBase>> \o BigSubFrom(a, b, i + 1, 1)
             ELSE <<s>> \o BigSubFrom(a, b, i + 1, 0)

BigSub(a, b) == BigTrim(BigSubFrom(a, b, 1, 0))

\* a * m for a machine natural m <= 200000
RECURSIVE BigMulSmallFrom(_, _, _, _)
BigMulSmallFrom(a, m, i, carry) ==
    IF i > Len(a)
    THEN BigFromNat(carry)
    ELSE LET s == a[i] * m + carry
         IN  <<s % BigBase>> \o BigMulSmallFrom(a, m, i + 1, s \div BigBase)

BigMulSmall(a, m) == BigTrim(BigMulSmallFrom(a, m, 1, 0))

\* a * b, limb by limb of b from the most significant: acc is a times the
\* limbs of b above i
RECURSIVE BigMulFrom(_, _, _, _)
BigMulFrom(a, b, i, acc) ==
    IF i = 0 THEN acc
    ELSE IF acc = <<>> THEN BigMulFrom(a, b, i - 1, BigMulSmall(a, b[i]))
    ELSE BigMulFrom(a, b, i - 1, BigAdd(BigMulSmall(a, b[i]), <<0>> \o acc))

BigMul(a, b) ==
    IF Len(a) >= Len(b) THEN BigMulFrom(a, b, Len(b), <<>>)
    ELSE BigMulFrom(b, a, Len(a), <<>>)

\* quotient and remainder of a by a machine natural m, 0 < m <= 200000
RECURSIVE BigDivSmallFrom(_, _, _, _)
BigDivSmallFrom(a, m, i, rem) ==
    IF i = 0 THEN [q |-> <<>>, r |-> rem]
    ELSE LET cur  == rem * BigBase + a[i]
             rest == BigDivSmallFrom(a, m, i - 1, cur % m)
         IN  [q |-> rest.q \o <<cur \div m>>, r |-> rest.r]

BigDivSmall(a, m) ==
    LET res == BigDivSmallFrom(a, m, Len(a), 0)
    IN  [q |-> BigTrim(res.q), r |-> res.r]

(***************************************************************************)
(* Animation scalars: exact fractions n / (FixDen * LerpDen^e), kept as     *)
(* [n |-> numerator, e |-> exponent, u |-> LerpDen^e] with e as small as    *)
(* the value allows                                                         *)
(***************************************************************************)
\* const lerp = 0.08, as the fraction LerpNum / LerpDen
LerpNum == 2
LerpDen == 25
\* parameters and audio boosts are multiples of 1 / FixDen
FixDen == 10 ^ 3

RECURSIVE FixNorm(_, _, _)
FixNorm(n, e, u) ==
    IF n = <<>> THEN [n |-> <<>>, e |-> 0, u |-> BigFromNat(1)]
    ELSE IF e = 0 THEN [n |-> n, e |-> 0, u |-> u]
    ELSE LET dv == BigDivSmall(n, LerpDen)
         IN  IF dv.r = 0 THEN FixNorm(dv.q, e - 1, BigDivSmall(u, LerpDen).q)
             ELSE [n |-> n, e |-> e, u |-> u]

\* the value m / FixDen
FixOfMilli(m) == [n |-> BigFromNat(m), e |-> 0, u |-> BigFromNat(1)]

FixZero == FixOfMilli(0)

\* LerpDen^k, by repeated squaring
RECURSIVE FixPow(_)
FixPow(k) ==
    IF k = 0 THEN BigFromNat(1)
    ELSE LET h == FixPow(k \div 2)
         IN  IF k % 2 = 0 THEN BigMul(h, h) ELSE BigMulSmall(BigMul(h, h), LerpDen)

\* of a and b the one with the larger exponent
FixFiner(a, b) == IF a.e >= b.e THEN a ELSE b

\* the numerator of a over the denominator of c, for c.e >= a.e
FixAt(a, c) ==
    IF a.e = c.e THEN a.n
    ELSE IF a.e = 0 THEN BigMul(a.n, c.u)
    ELSE BigMul(a.n, FixPow(c.e - a.e))

FixCmp(a, b) == BigCmp(FixAt(a, FixFiner(a, b)), FixAt(b, FixFiner(a, b)))

FixLeq(a, b) == FixCmp(a, b) <= 0

FixLess(a, b) == FixCmp(a, b) < 0

FixAdd(a, b) ==
    FixNorm(BigAdd(FixAt(a, FixFiner(a, b)), FixAt(b, FixFiner(a, b))),
            FixFiner(a, b).e, FixFiner(a, b).u)

\* a - b for a >= b
FixSub(a, b) ==
    FixNorm(BigSub(FixAt(a, FixFiner(a, b)), FixAt(b, FixFiner(a, b))),
            FixFiner(a, b).e, FixFiner(a, b).u)

FixMin(a, b) == IF FixLeq(a, b) THEN a ELSE b

\* |a - b|
FixDist(a, b) == IF FixLeq(a, b) THEN FixSub(b, a) ELSE FixSub(a, b)

\* a / LerpDen
FixOver(a) == FixNorm(a.n, a.e + 1, BigMulSmall(a.u, LerpDen))

\* a * k for a machine natural k
FixTimes(a, k) == FixNorm(BigMulSmall(a.n, k), a.e, a.u)

\* a * lerp
FixTimesLerp(a) == FixOver(FixTimes(a, LerpNum))

(***************************************************************************)
(* Vectors and 3x3 matrices over the integers                               *)
(***************************************************************************)
Abs(x) == IF x < 0 THEN -x ELSE x

RECURSIVE Gcd(_, _)
Gcd(a, b) == IF b = 0 THEN a ELSE Gcd(b, a % b)

Dot(u, w) == u[1] * w[1] + u[2] * w[2] + u[3] * w[3]

VecAdd(u, w) == <<u[1] + w[1], u[2] + w[2], u[3] + w[3]>>

VecScale(u, k) == <<u[1] * k, u[2] * k, u[3] * k>>

MatVec(m, u) == <<Dot(m[1], u), Dot(m[2], u), Dot(m[3], u)>>

Det3(m) ==
      m[1][1] * (m[2][2] * m[3][3] - m[2][3] * m[3][2])
    - m[1][2] * (m[2][1] * m[3][3] - m[2][3] * m[3][1])
    + m[1][3] * (m[2][1] * m[3][2] - m[2][2] * m[3][1])

\* the transposed cofactor matrix: m * Adj3(m) = Det3(m) * identity
Adj3(m) ==
    << << m[2][2] * m[3][3] - m[2][3] * m[3][2],
          m[1][3] * m[3][2] - m[1][2] * m[3][3],
          m[1][2] * m[2][3] - m[1][3] * m[2][2] >>,
       << m[2][3] * m[3][1] - m[2][1] * m[3][3],
          m[1][1] * m[3][3] - m[1][3] * m[3][1],
          m[1][3] * m[2][1] - m[1][1] * m[2][3] >>,
       << m[2][1] * m[3][2] - m[2][2] * m[3][1],
          m[1][2] * m[3][1] - m[1][1] * m[3][2],
          m[1][1] * m[2][2] - m[1][2] * m[2][1] >> >>

\* cos and sin of q quarter turns
CosQ(q) == <<1, 0, -1, 0>>[(q % 4) + 1]
SinQ(q) == <<0, 1, 0, -1>>[(q % 4) + 1]

(***************************************************************************)
(* Signed big integers, [neg |-> sign, mag |-> big natural]; zero is not    *)
(* negative                                                                 *)
(***************************************************************************)
ZMake(neg, mag) == [neg |-> neg /\ mag # <<>>, mag |-> mag]

ZOf(k) == ZMake(k < 0, BigFromNat(Abs(k)))

ZNeg(a) == ZMake(~a.neg, a.mag)

ZAdd(a, b) ==
    IF a.neg = b.neg THEN ZMake(a.neg, BigAdd(a.mag, b.mag))
    ELSE IF BigLeq(b.mag, a.mag) THEN ZMake(a.neg, BigSub(a.mag, b.mag))
    ELSE ZMake(b.neg, BigSub(b.mag, a.mag))

ZSub(a, b) == ZAdd(a, ZNeg(b))

ZMul(a, b) == ZMake(a.neg # b.neg, BigMul(a.mag, b.mag))

\* a <= b
ZLeq(a, b) == ZSub(a, b).neg \/ ZSub(a, b).mag = <<>>

(***************************************************************************)
(* isPointInShape.  A point is [v |-> integer vector, d |-> denominator].   *)
(***************************************************************************)
\* radius: number = 0.9, as the fraction RadiusNum / RadiusDen
RadiusNum == 9
RadiusDen == 10
\* Box: limit = radius * 0.8, the factor as BoxNum / BoxDen
BoxNum == 8
BoxDen == 10
\* Torus: R = 0.8 and r = 0.32, both over TorusDen
TorusMajor == 20
TorusMinor == 8
TorusDen == 25

\* the shape kinds whose membership test is modelled so far
Shapes == {"Sphere", "Box", "Torus"}

\* p.length() <= radius
InSphere(p) ==
    Dot(p.v, p.v) * RadiusDen * RadiusDen <= RadiusNum * RadiusNum * p.d * p.d

\* a box whose limit is the radius itself
InBoxWide(p) ==
    \A k \in 1..3 : Abs(p.v[k]) * RadiusDen <= RadiusNum * p.d

\* |x|, |y|, |z| <= radius * 0.8
InBox(p) ==
    \A k \in 1..3 :
        Abs(p.v[k]) * RadiusDen * BoxDen <= RadiusNum * BoxNum * p.d

\* (sqrt(x^2 + z^2) - R)^2 + y^2 <= r^2.  With s = x^2 + z^2 this is
\* s + y^2 + R^2 - r^2 <= 2 R sqrt(s), whose left side is positive (R > r),
\* hence (s + y^2 + R^2 - r^2)^2 <= 4 R^2 s; all over (TorusDen * d)^2.
InTorus(p) ==
    LET s    == p.v[1] * p.v[1] + p.v[3] * p.v[3]
        y2   == p.v[2] * p.v[2]
        td2  == TorusDen * TorusDen
        lhs  == BigAdd(BigFromNat(td2 * (s + y2)),
                       BigMulSmall(BigFromNat(p.d * p.d),
                                   TorusMajor * TorusMajor - TorusMinor * TorusMinor))
        rhs  == BigMulSmall(BigMul(BigFromNat(4 * TorusMajor * TorusMajor * s),
                                   BigFromNat(p.d * p.d)), td2)
    IN  BigLeq(BigMul(lhs, lhs), rhs)

\* p.length() > 1.2, the guard of Mandelbulb and Julia
FarOut(p) == Dot(p.v, p.v) * 25 > 36 * p.d * p.d

\* Julia: the quaternion q = (qw, qx, qy, qz) as four numerators over one
\* positive denominator.  The start is (1.5 x, 1.5 y, 1.5 z, 0), in lowest
\* terms.
JuliaStart(p) ==
    LET g == Gcd(Gcd(Gcd(Abs(3 * p.v[1]), Abs(3 * p.v[2])), Abs(3 * p.v[3])), 2 * p.d)
    IN  [n |-> << ZOf((3 * p.v[1]) \div g), ZOf((3 * p.v[2]) \div g),
                  ZOf((3 * p.v[3]) \div g), ZOf(0) >>,
         d |-> ZOf((2 * p.d) \div g)]

\* r2 = qw^2 + qx^2 + qy^2 + qz^2 > 4
JuliaEscaped(q) ==
    LET r2 == ZAdd(ZAdd(ZMul(q.n[1], q.n[1]), ZMul(q.n[2], q.n[2])),
                   ZAdd(ZMul(q.n[3], q.n[3]), ZMul(q.n[4], q.n[4])))
    IN  ~ZLeq(r2, ZMul(ZOf(4), ZMul(q.d, q.d)))

\* q = q^2 + c with c = (-0.2, 0.6, 0, 0) = (-1/5, 3/5, 0, 0); the new
\* denominator is d^2 when 5 divides it, else 5 d^2
JuliaStep(q) ==
    LET dd    == ZMul(q.d, q.d)
        fifth == BigDivSmall(dd.mag, 5)
        nw    == ZSub(ZSub(ZMul(q.n[1], q.n[1]), ZMul(q.n[2], q.n[2])),
                      ZAdd(ZMul(q.n[3], q.n[3]), ZMul(q.n[4], q.n[4])))
        nx    == ZMul(ZOf(2), ZMul(q.n[1], q.n[2]))
        ny    == ZMul(ZOf(2), ZMul(q.n[1], q.n[3]))
        nz    == ZMul(ZOf(2), ZMul(q.n[1], q.n[4]))
        unit  == ZMake(FALSE, fifth.q)
    IN  IF fifth.r = 0
        THEN [n |-> << ZSub(nw, unit), ZAdd(nx, ZMul(ZOf(3), unit)), ny, nz >>,
              d |-> dd]
        ELSE [n |-> << ZSub(ZMul(ZOf(5), nw), dd),
                       ZAdd(ZMul(ZOf(5), nx), ZMul(ZOf(3), dd)),
                       ZMul(ZOf(5), ny), ZMul(ZOf(5), nz) >>,
              d |-> ZMul(ZOf(5), dd)]

\* maxIter = 7
JuliaMaxIter == 7

\* a loop that tests the value the last pass leaves as well
RECURSIVE JuliaBoundedThrough(_, _)
JuliaBoundedThrough(q, iter) ==
    IF JuliaEscaped(q) THEN FALSE
    ELSE IF iter >= JuliaMaxIter THEN TRUE
    ELSE JuliaBoundedThrough(JuliaStep(q), iter + 1)

\* for (; iter < maxIter; iter++) { if (r2 > 4) { bounded = false; break; }
\* q = q^2 + c }: the value of bounded after the loop
RECURSIVE JuliaBounded(_, _)
JuliaBounded(q, iter) ==
    IF iter >= JuliaMaxIter THEN TRUE
    ELSE IF JuliaEscaped(q) THEN FALSE
    ELSE JuliaBounded(JuliaStep(q), iter + 1)

InJulia(p) == IF FarOut(p) THEN FALSE ELSE JuliaBounded(JuliaStart(p), 0)

\* Heart: sx = 1.3 x, sy = 1.3 y + 0.1, sz = 1.3 z over D = 10 d, that is
\* X = 13 x, Y = 13 y + d, Z = 13 z; a = A / (4 D^2) with
\* A = 4 X^2 + 9 Z^2 + 4 Y^2 - 4 D^2; and val * 320 D^6 =
\* 5 A^3 - 320 D X^2 Y^3 - 36 D Z^2 Y^3
HeartVal(X, Y, Z, D) ==
    LET A  == ZOf(4 * X * X + 9 * Z * Z + 4 * Y * Y - 4 * D * D)
        Y3 == ZMul(ZOf(Y * Y), ZOf(Y))
    IN  ZSub(ZSub(ZMul(ZOf(5), ZMul(A, ZMul(A, A))),
                  ZMul(ZOf(320 * D), ZMul(ZOf(X * X), Y3))),
             ZMul(ZOf(36 * D), ZMul(ZOf(Z * Z), Y3)))

\* the Heart with the y offset 0.13
InHeartOffset13(p) ==
    ZLeq(HeartVal(130 * p.v[1], 130 * p.v[2] + 13 * p.d, 130 * p.v[3], 100 * p.d),
         ZOf(0))

\* inside = val <= 0
InHeart(p) ==
    ZLeq(HeartVal(13 * p.v[1], 13 * p.v[2] + p.d, 13 * p.v[3], 10 * p.d), ZOf(0))

\* Atom: R = 0.7 and r = 0.12, both over AtomDen
AtomMajor == 70
AtomMinor == 12
AtomDen == 100

\* one ring: (sqrt(u^2 + v^2) - R)^2 + w^2 < r^2.  With s = u^2 + v^2 this
\* is s + w^2 + R^2 - r^2 < 2 R sqrt(s), whose left side is positive, hence
\* (s + w^2 + R^2 - r^2)^2 < 4 R^2 s; all over (AtomDen * d)^2.
AtomRing(u, v, w, d) ==
    LET s   == u * u + v * v
        ad2 == AtomDen * AtomDen
        lhs == BigAdd(BigFromNat(ad2 * (s + w * w)),
                      BigFromNat(d * d * (AtomMajor * AtomMajor - AtomMinor * AtomMinor)))
        rhs == BigMulSmall(BigMul(BigFromNat(4 * AtomMajor * AtomMajor * s),
                                  BigFromNat(d * d)), ad2)
    IN  BigCmp(BigMul(lhs, lhs), rhs) < 0

\* the three rings without the nucleus
InAtomRings(p) ==
    \/ AtomRing(p.v[1], p.v[2], p.v[3], p.d)
    \/ AtomRing(p.v[2], p.v[3], p.v[1], p.d)
    \/ AtomRing(p.v[1], p.v[3], p.v[2], p.d)

\* inside = t1 < r*r || t2 < r*r || t3 < r*r; if (p.length() < 0.25) inside = true
InAtom(p) ==
    \/ AtomRing(p.v[1], p.v[2], p.v[3], p.d)
    \/ AtomRing(p.v[2], p.v[3], p.v[1], p.d)
    \/ AtomRing(p.v[1], p.v[3], p.v[2], p.d)
    \/ Dot(p.v, p.v) * 16 < p.d * p.d

\* the kinds the scene is built with here (Shapes); isPointInShapeWith
\* decides all eleven
isPointInShape(shape, p) ==
    IF shape = "Sphere" THEN InSphere(p)
    ELSE IF shape = "Box" THEN InBox(p)
    ELSE IF shape = "Torus" THEN InTorus(p)
    ELSE FALSE

(***************************************************************************)
(* The kinds decided with sin, cos, acos, atan2 or pow.  What those calls   *)
(* give is an input, fl:                                                    *)
(*   wave   |val| is below the threshold of Gyroid or SchwarzP              *)
(*   orbit  the Mandelbulb orbit after the start value: orbit[k] is         *)
(*          "escaped" (r2 > 4), "tiny" (r < 0.0001) or "bounded" for the    *)
(*          value the k-th pass leaves                                      *)
(*   powers the sum of the three pow calls of Star is <= limit              *)
(*   turn   <<c, s, h>>: (cos, sin) of the Twist angle is (c / h, s / h),    *)
(*          c^2 + s^2 = h^2                                                 *)
(* The tests on p alone are computed exactly.                               *)
(***************************************************************************)
\* p.length() < radius * factor, the factor in tenths
WithinRadius(p, factor) ==
    Dot(p.v, p.v) * (RadiusDen * 10) * (RadiusDen * 10)
        < (RadiusNum * factor) * (RadiusNum * factor) * p.d * p.d

\* inside = Math.abs(val) < 0.35 && p.length() < radius * 1.3
InGyroid(p, fl) == fl.wave /\ WithinRadius(p, 13)

\* inside = Math.abs(val) < 0.3 && p.length() < radius * 1.2
InSchwarzP(p, fl) == fl.wave /\ WithinRadius(p, 12)

\* maxIter = 6
BulbMaxIter == 6

\* the class of the value the loop holds at pass iter: p itself at pass 0
BulbClass(p, fl, iter) ==
    IF iter > 0 THEN fl.orbit[iter]
    ELSE IF Dot(p.v, p.v) > 4 * p.d * p.d THEN "escaped"
    ELSE IF Dot(p.v, p.v) <= (p.d * p.d - 1) \div (10 ^ 8) THEN "tiny"
    ELSE "bounded"

\* for (; iter < maxIter; iter++) { if (r2 > 4) { bounded = false; break; }
\* if (r < 0.0001) break; z = ...; }: the value of bounded after the loop
RECURSIVE BulbBounded(_, _, _)
BulbBounded(p, fl, iter) ==
    IF iter >= BulbMaxIter THEN TRUE
    ELSE IF BulbClass(p, fl, iter) = "escaped" THEN FALSE
    ELSE IF BulbClass(p, fl, iter) = "tiny" THEN TRUE
    ELSE BulbBounded(p, fl, iter + 1)

InMandelbulb(p, fl) == IF FarOut(p) THEN FALSE ELSE BulbBounded(p, fl, 0)

\* Star: val = |x|^0.6 + |y|^0.6 + |z|^0.6 <= 1.2.  One term alone is above
\* 1.2 when |x|^3 > 1.2^5 = 2.48832, and all three are at most 0.4 when
\* |x|^3 <= 0.4^5 = 0.01024; between the two the pow calls decide.
InStar(p, fl) ==
    IF \E k \in 1..3 : Abs(p.v[k]) * Abs(p.v[k]) * Abs(p.v[k]) * (10 ^ 5)
                          > 248832 * p.d * p.d * p.d
    THEN FALSE
    ELSE IF \A k \in 1..3 : Abs(p.v[k]) * Abs(p.v[k]) * Abs(p.v[k]) * (10 ^ 5)
                               <= 1024 * p.d * p.d * p.d
    THEN TRUE
    ELSE fl.powers

\* Twist: angle = p.y * 2.5 is 0 for p.y = 0; tx = x ca - z sa,
\* tz = x sa + z ca; inside = |tx| < 0.4 && |tz| < 0.4 && |p.y| < 0.85
InTwist(p, fl) ==
    LET turn == IF p.v[2] = 0 THEN <<1, 0, 1>> ELSE fl.turn
        tx   == p.v[1] * turn[1] - p.v[3] * turn[2]
        tz   == p.v[1] * turn[2] + p.v[3] * turn[1]
    IN  /\ Abs(tx) * 10 < 4 * p.d * turn[3]
        /\ Abs(tz) * 10 < 4 * p.d * turn[3]
        /\ Abs(p.v[2]) * 100 < 85 * p.d

\* export type ShapeType
ShapeKinds ==
    {"Sphere", "Torus", "Box", "Gyroid", "Mandelbulb", "Twist", "Atom", "Julia",
     "Heart", "SchwarzP", "Star"}

isPointInShapeWith(shape, p, fl) ==
    IF shape = "Gyroid" THEN InGyroid(p, fl)
    ELSE IF shape = "SchwarzP" THEN InSchwarzP(p, fl)
    ELSE IF shape = "Mandelbulb" THEN InMandelbulb(p, fl)
    ELSE IF shape = "Star" THEN InStar(p, fl)
    ELSE IF shape = "Twist" THEN InTwist(p, fl)
    ELSE IF shape = "Julia" THEN InJulia(p)
    ELSE IF shape = "Heart" THEN InHeart(p)
    ELSE IF shape = "Atom" THEN InAtom(p)
    ELSE isPointInShape(shape, p)

(***************************************************************************)
(* Placement of a design element.  position and scale are in tenths (the    *)
(* panel's step), rotation in quarter turns about x, y, z (Euler order XYZ),*)
(* where sines and cosines are integers.                                    *)
(***************************************************************************)
PlaceDen == 10 ^ 1

\* obj.rotation.set(...el.rotation): the rotation matrix of Euler angles XYZ
EulerMatrix(rot) ==
    LET a == CosQ(rot[1])
        b == SinQ(rot[1])
        c == CosQ(rot[2])
        d == SinQ(rot[2])
        e == CosQ(rot[3])
        f == SinQ(rot[3])
    IN  << << c * e,             -(c * f),          d        >>,
           << a * f + b * e * d, a * e - b * f * d, -(b * c) >>,
           << b * f - a * e * d, b * e + a * f * d, a * c    >> >>

\* obj.updateMatrix(): translation * rotation * uniform scale
ComposeMatrix(el) ==
    [rot |-> EulerMatrix(el.rotation), scale |-> el.scale, pos |-> el.position]

\* obj.matrix.invert(): adjugate over determinant.  The linear part of the
\* matrix is (scale / PlaceDen) * rot, so its inverse is
\* PlaceDen * Adj3(rot) / (scale * Det3(rot)) and the translation column is
\* minus that inverse applied to pos / PlaceDen.  Both are kept over the
\* common positive denominator den.
InvertMatrix(m) ==
    LET det == m.scale * Det3(m.rot)
        sg  == IF det < 0 THEN -1 ELSE 1
        adj == Adj3(m.rot)
    IN  [lin   |-> [i \in 1..3 |-> VecScale(adj[i], sg * PlaceDen)],
         trans |-> VecScale(MatVec(adj, m.pos), -sg),
         den   |-> sg * det]

\* an applyMatrix4 that leaves out the division by the common denominator
ApplyMatrix4Undivided(p, inv) ==
    [v |-> VecAdd(MatVec(inv.lin, p.v), VecScale(inv.trans, p.d)),
     d |-> p.d]

\* p.clone().applyMatrix4(invMatrix)
ApplyMatrix4(p, inv) ==
    [v |-> VecAdd(MatVec(inv.lin, p.v), VecScale(inv.trans, p.d)),
     d |-> p.d * inv.den]

\* the world point of local point q under the element's placement
PlacePoint(m, q) ==
    [v |-> VecAdd(VecScale(MatVec(m.rot, q.v), m.scale), VecScale(m.pos, q.d)),
     d |-> PlaceDen * q.d]

SamePoint(p, q) == \A k \in 1..3 : p.v[k] * q.d = q.v[k] * p.d

(***************************************************************************)
(* State                                                                    *)
(***************************************************************************)
VARIABLES
    params,         \* App: the PuzzleParams held by useState
    pending,        \* the commit whose effects have not run yet:
                    \*   "none", "params" (only [params] changed) or
                    \*   "rebuild" (shape, resolution, mode or elements changed)
    mounted,        \* the mount effect has run (sceneData.current is set)
    paramsRef,      \* PuzzleScene: paramsRef.current
    physicsState,   \* currentExplode, currentNoise, targetExplode, targetNoise
    pieceData,      \* sceneData.current.pieceData
    puzzleMesh,     \* sceneData.current.puzzleMesh: <<>> (null) or <<mesh>>
    hoveredId,      \* sceneData.current.hoveredId
    dummy,          \* the Object3D shared by rebuildPuzzle and animate
    audio,          \* initAudio calls, pending getUserMedia promises, analyser
    frame,          \* renderer.info.render.frame: frames rendered so far
    stats,          \* App: the PuzzleStats last reported by onStatsUpdate
    download,       \* the file handed to the browser by the last step, if any
    builds,         \* rebuildPuzzle calls so far
    pieceBuild,     \* the rebuildPuzzle call that filled pieceData
    steady,         \* observer: ticks run since the targets last changed
    remembered,     \* observer: one earlier build, kept for comparison
    asked,          \* a call of isPointInShape made on its own: <<>> (none),
                    \*   <<[shape, p, fl]>> (the arguments) or
                    \*   <<[shape, p, fl], inside>> (returned)
    hoverBuild      \* observer: the rebuildPuzzle calls made when onPointerMove
                    \*   last ran (0: it never ran)

\* everything but the download and the observers
sceneVars == <<params, pending, mounted, paramsRef, physicsState, pieceData,
               puzzleMesh, hoveredId, dummy, audio, frame, stats,
               builds, pieceBuild>>

vars == <<params, pending, mounted, paramsRef, physicsState, pieceData,
          puzzleMesh, hoveredId, dummy, audio, frame, stats, download,
          builds, pieceBuild, steady, remembered, asked, hoverBuild>>

(***************************************************************************)
(* Terms for values the program computes with sqrt, sin and cos             *)
(***************************************************************************)
\* the components of v divided by their greatest common divisor
Primitive(v) ==
    LET g == Gcd(Gcd(Abs(v[1]), Abs(v[2])), Abs(v[3]))
    IN  IF g = 0 THEN v ELSE <<v[1] \div g, v[2] \div g, v[3] \div g>>

\* Vector3.normalize(): v / (v.length() || 1).  The result is the unit vector
\* along dir (lenSq 1) or the zero vector (lenSq 0).
Normalize(v) ==
    IF Dot(v, v) = 0
    THEN [dir |-> <<0, 0, 0>>, lenSq |-> 0]
    ELSE [dir |-> Primitive(v), lenSq |-> 1]

\* outward.set(0, 1, 0)
UnitY == [dir |-> <<0, 1, 0>>, lenSq |-> 1]

\* animTime = time * (0.2 + speed * 1.3); the clock starts with the first
\* tick, so time is 0 there and positive later, and the factor is positive
AnimTime(time, speed) ==
    IF time = 0 THEN [time |-> 0, speed |-> 0] ELSE [time |-> time, speed |-> speed]

\* dummy.position: rest + outward * exp + randomDir * n * ns (+ outward * pVal).
\* A part whose coefficient is exactly 0 is absent (<<>>).
PositionTerm(data, currentExplode, currentNoise, animTime) ==
    [rest    |-> data.position,
     explode |-> IF currentExplode = FixZero THEN <<>>
                 ELSE <<[dir |-> data.outward, amount |-> currentExplode]>>,
     noise   |-> IF currentNoise = FixZero \/ data.randomDir.lenSq = 0 THEN <<>>
                 ELSE <<[dir |-> data.randomDir, amp |-> data.randAmp,
                         phase |-> data.randPhase, level |-> currentNoise,
                         at |-> animTime]>>,
     pick    |-> IF data.picked
                 THEN <<[dir |-> data.outward, phase |-> data.randPhase,
                         at |-> animTime]>>
                 ELSE <<>>]

\* dummy.position.copy(pos)
RestPosition(pos) == [rest |-> pos, explode |-> <<>>, noise |-> <<>>, pick |-> <<>>]

\* dummy.rotation.y = (animTime * 0.15 + phase) * currentNoise and
\* dummy.rotation.x = 0.2 * currentNoise * sin(animTime * 0.5 + phase):
\* both 0 exactly when currentNoise is 0 or animTime and phase are both 0
RotationTerm(data, currentNoise, animTime) ==
    IF currentNoise = FixZero \/ (animTime.time = 0 /\ data.randPhase = 0)
    THEN <<>>
    ELSE <<[level |-> currentNoise, phase |-> data.randPhase, at |-> animTime]>>

\* dummy.scale: (pulse, pulse, pulse) for a picked piece, else (1, 1, 1)
ScaleTerm(data, animTime) ==
    IF data.picked THEN <<[phase |-> data.randPhase, at |-> animTime]>> ELSE <<>>

\* dummy.updateMatrix(): the matrix composed of the dummy's three parts
DummyMatrix(d) == [position |-> d.position, rotation |-> d.rotation, scale |-> d.scale]

NewDummy == [position |-> RestPosition([v |-> <<0, 0, 0>>, d |-> 1]),
             rotation |-> <<>>, scale |-> <<>>]

(***************************************************************************)
(* rebuildPuzzle                                                            *)
(***************************************************************************)
\* Math.random() takes one of RandLevels values k / RandLevels; the n-th draw
\* of the stream chosen by seed
RandLevels == 4
Rand(seed, n) == (seed + n * (seed + 1)) % RandLevels

\* the centre of cell (ix, iy, iz), k = (ix * res + iy) * res + iz:
\* -half + (i + 0.5) * step = (2 i + 1 - res) / res
GridPoint(res, k) ==
    [v |-> << 2 * (k \div (res * res)) + 1 - res,
              2 * ((k \div res) % res) + 1 - res,
              2 * (k % res) + 1 - res >>,
     d |-> res]

\* pParams.elements.map(el => ({...el, invMatrix})) in Designer mode, else []
DesignElements(pParams) ==
    IF pParams.mode = "DESIGNER"
    THEN [i \in 1..Len(pParams.elements) |->
            [el |-> pParams.elements[i],
             invMatrix |-> InvertMatrix(ComposeMatrix(pParams.elements[i]))]]
    ELSE <<>>

\* a loop over designElements that tests the disabled elements too
RECURSIVE DesignerInsideAll(_, _, _)
DesignerInsideAll(des, k, p) ==
    IF k > Len(des) THEN FALSE
    ELSE IF isPointInShape(des[k].el.type, ApplyMatrix4(p, des[k].invMatrix)) THEN TRUE
    ELSE DesignerInsideAll(des, k + 1, p)

\* for (const el of designElements): skip the disabled, stop at the first hit
RECURSIVE DesignerInside(_, _, _)
DesignerInside(des, k, p) ==
    IF k > Len(des) THEN FALSE
    ELSE IF ~des[k].el.enabled THEN DesignerInside(des, k + 1, p)
    ELSE IF isPointInShape(des[k].el.type, ApplyMatrix4(p, des[k].invMatrix)) THEN TRUE
    ELSE DesignerInside(des, k + 1, p)

CellInside(pParams, des, p) ==
    IF pParams.mode = "SINGLE"
    THEN isPointInShape(pParams.shape, p)
    ELSE DesignerInside(des, 1, p)

\* the positions array: surviving cell centres in loop order ix, iy, iz
SamplePositions(pParams) ==
    LET res == pParams.resolution
        des == DesignElements(pParams)
        inside(p) == CellInside(pParams, des, p)
    IN  SelectSeq([k \in 1..(res * res * res) |-> GridPoint(res, k - 1)], inside)

\* maxDist, squared, in units of 1 / res^2
MaxDistSq(positions) ==
    LET sq == {Dot(positions[i].v, positions[i].v) : i \in 1..Len(positions)}
    IN  IF sq = {} THEN 0 ELSE CHOOSE m \in sq : \A x \in sq : x <= m

\* color.setHSL(0.58 + 0.12 t, 0.7, 0.5 + 0.12 t), t = pos.length() / maxDist
\* or 0: the colour is kept as t^2 in lowest terms
ColorRamp(pos, maxSq) ==
    LET sq == Dot(pos.v, pos.v)
    IN  IF maxSq > 0
        THEN [white |-> FALSE, tsq |-> <<sq \div Gcd(sq, maxSq), maxSq \div Gcd(sq, maxSq)>>]
        ELSE [white |-> FALSE, tsq |-> <<0, 1>>]

\* new THREE.Color(1, 1, 1)
White == [white |-> TRUE, tsq |-> <<0, 1>>]

\* pos.clone().normalize() alone
OutwardRaw(pos) == Normalize(pos.v)

\* outward = pos.clone().normalize(); if (outward.lengthSq() < 1e-6) set(0,1,0)
Outward(pos) ==
    LET n == Normalize(pos.v)
    IN  IF n.lenSq = 0 THEN UnitY ELSE n

\* a piece whose colour depends on one of its random draws
NewPieceTinted(pos, maxSq, seed, i) ==
    [position  |-> pos,
     outward   |-> Outward(pos),
     randomDir |-> Normalize(<< 2 * Rand(seed, 5 * i) - RandLevels,
                                2 * Rand(seed, 5 * i + 1) - RandLevels,
                                2 * Rand(seed, 5 * i + 2) - RandLevels >>),
     randPhase |-> Rand(seed, 5 * i + 3),
     randAmp   |-> Rand(seed, 5 * i + 4),
     picked    |-> FALSE,
     baseColor |-> IF Rand(seed, 5 * i + 3) = 0 THEN White ELSE ColorRamp(pos, maxSq)]

\* pieceData[i], i counted from 0; five draws of Math.random() per piece
NewPiece(pos, maxSq, seed, i) ==
    [position  |-> pos,
     outward   |-> Outward(pos),
     randomDir |-> Normalize(<< 2 * Rand(seed, 5 * i) - RandLevels,
                                2 * Rand(seed, 5 * i + 1) - RandLevels,
                                2 * Rand(seed, 5 * i + 2) - RandLevels >>),
     randPhase |-> Rand(seed, 5 * i + 3),
     randAmp   |-> Rand(seed, 5 * i + 4),
     picked    |-> FALSE,
     baseColor |-> ColorRamp(pos, maxSq)]

\* the instance matrix rebuildPuzzle writes for a piece: dummy.position and
\* dummy.scale are set, dummy.rotation is whatever the dummy holds
RebuildMatrix(pos, dm) ==
    DummyMatrix([position |-> RestPosition(pos), rotation |-> dm.rotation, scale |-> <<>>])

\* new THREE.InstancedMesh(geom, mat, count) with the matrices and colours
\* the piece loop sets
NewMesh(sc, positions, maxSq) ==
    [count          |-> Len(positions),
     cell           |-> sc.paramsRef.resolution,
     instanceMatrix |-> [i \in 1..Len(positions) |-> RebuildMatrix(positions[i], sc.dummy)],
     instanceColor  |-> [i \in 1..Len(positions) |-> ColorRamp(positions[i], maxSq)],
     build          |-> sc.builds + 1]

\* a rebuildPuzzle that fills the new pieceData but keeps a mesh it finds
rebuildKeepsMesh(sc, seed) ==
    LET positions == SamplePositions(sc.paramsRef)
        maxSq     == MaxDistSq(positions)
    IN  [sc EXCEPT
           !.pieceData  = [i \in 1..Len(positions) |-> NewPiece(positions[i], maxSq, seed, i - 1)],
           !.pieceBuild = sc.builds + 1,
           !.puzzleMesh = IF sc.puzzleMesh = <<>>
                          THEN <<NewMesh(sc, positions, maxSq)>> ELSE sc.puzzleMesh,
           !.builds     = sc.builds + 1]

\* sc is the scene (the fields of sceneData.current, paramsRef, physicsState)
rebuildPuzzle(sc, seed) ==
    LET positions == SamplePositions(sc.paramsRef)
        count     == Len(positions)
        maxSq     == MaxDistSq(positions)
    IN  [sc EXCEPT
           !.pieceData  = [i \in 1..count |-> NewPiece(positions[i], maxSq, seed, i - 1)],
           !.pieceBuild = sc.builds + 1,
           !.puzzleMesh = <<NewMesh(sc, positions, maxSq)>>,
           !.builds     = sc.builds + 1,
           !.dummy      = IF count = 0 THEN sc.dummy
                          ELSE [position |-> RestPosition(positions[count]),
                                rotation |-> sc.dummy.rotation,
                                scale    |-> <<>>]]

(***************************************************************************)
(* animate                                                                  *)
(***************************************************************************)
\* audioLevel is counted in hundredths
LevelDen == 10 ^ 2
\* targetExplode + audioLevel * 0.9, at most 1.5 (in 1 / FixDen)
ExplodeBoost == 900
ExplodeCap == 1500
\* targetNoise + audioLevel * 0.8, at most 1.0
NoiseBoost == 800
NoiseCap == 1000
\* renderer.info.render.frame % 15 === 0
StatsEvery == 15

\* a chase with half the lerp
ChaseSlow(current, target) ==
    IF FixLeq(current, target)
    THEN FixAdd(current, FixOver(FixSub(target, current)))
    ELSE FixSub(current, FixOver(FixSub(current, target)))

\* a chase that passes a target above it by the distance it had to go
ChaseFar(current, target) ==
    IF FixLeq(current, target)
    THEN FixAdd(target, FixSub(target, current))
    ELSE target

\* current += (target - current) * lerp
Chase(current, target) ==
    IF FixLeq(current, target)
    THEN FixAdd(current, FixTimesLerp(FixSub(target, current)))
    ELSE FixSub(current, FixTimesLerp(FixSub(current, target)))

\* initAudio(): one more AudioContext and one more getUserMedia request; the
\* scene learns of it only when the request is granted
initAudio(au) == [au EXCEPT !.calls = au.calls + 1, !.pending = au.pending + 1]

\* an explode target raised by the audio level without the clamp
TickTargetExplodeUnclamped(ps, pState, audioLevel) ==
    IF pState.audioEnabled /\ audioLevel > 0
    THEN FixAdd(ps.targetExplode, FixOfMilli((audioLevel * ExplodeBoost) \div LevelDen))
    ELSE ps.targetExplode

\* the targets the tick chases: the stored targets, raised by the audio level
TickTargetExplode(ps, pState, audioLevel) ==
    IF pState.audioEnabled /\ audioLevel > 0
    THEN FixMin(FixAdd(ps.targetExplode, FixOfMilli((audioLevel * ExplodeBoost) \div LevelDen)),
                FixOfMilli(ExplodeCap))
    ELSE ps.targetExplode

TickTargetNoise(ps, pState, audioLevel) ==
    IF pState.audioEnabled /\ audioLevel > 0
    THEN FixMin(FixAdd(ps.targetNoise, FixOfMilli((audioLevel * NoiseBoost) \div LevelDen)),
                FixOfMilli(NoiseCap))
    ELSE ps.targetNoise

\* the dummy after the loop body for one piece
PieceDummy(data, currentExplode, currentNoise, animTime) ==
    [position |-> PositionTerm(data, currentExplode, currentNoise, animTime),
     rotation |-> RotationTerm(data, currentNoise, animTime),
     scale    |-> ScaleTerm(data, animTime)]

\* one frame; level is what the analyser would report on this frame
animate(sc, level) ==
    LET pState     == sc.paramsRef
        ps         == sc.physicsState
        audioLevel == IF pState.audioEnabled /\ sc.audio.analyser THEN level ELSE 0
        curExplode == Chase(ps.currentExplode, TickTargetExplode(ps, pState, audioLevel))
        curNoise   == Chase(ps.currentNoise, TickTargetNoise(ps, pState, audioLevel))
        animTime   == AnimTime(sc.frame, pState.speed)
        count      == Len(sc.pieceData)
        moved(i)   == PieceDummy(sc.pieceData[i], curExplode, curNoise, animTime)
    IN  [sc EXCEPT
           !.audio        = IF pState.audioEnabled /\ ~sc.audio.analyser
                            THEN initAudio(sc.audio) ELSE sc.audio,
           !.physicsState = [ps EXCEPT !.currentExplode = curExplode,
                                       !.currentNoise = curNoise],
           !.stats        = IF sc.frame % StatsEvery = 0
                            THEN [pieceCount |-> count, audioLevel |-> audioLevel]
                            ELSE sc.stats,
           !.puzzleMesh   = IF sc.puzzleMesh = <<>> THEN <<>>
                            ELSE <<[sc.puzzleMesh[1] EXCEPT !.instanceMatrix =
                                      [i \in 1..sc.puzzleMesh[1].count |->
                                         IF i <= count THEN DummyMatrix(moved(i))
                                         ELSE sc.puzzleMesh[1].instanceMatrix[i]]]>>,
           !.dummy        = IF sc.puzzleMesh = <<>> \/ count = 0 THEN sc.dummy
                            ELSE moved(count),
           !.frame        = sc.frame + 1]

(***************************************************************************)
(* Pointer handlers and exportSTL                                           *)
(***************************************************************************)
\* BoxGeometry with one segment per edge: 6 faces of 2 triangles
CubeTriangles == 12

InRange(id, data) == id >= 0 /\ id < Len(data)

\* newId is the instance the ray hits first, or -1
onPointerMove(sc, newId) ==
    IF sc.puzzleMesh = <<>> \/ newId = sc.hoveredId THEN sc
    ELSE LET mesh == sc.puzzleMesh[1]
             restored == IF InRange(sc.hoveredId, sc.pieceData) /\ sc.hoveredId < mesh.count
                         THEN [mesh.instanceColor EXCEPT ![sc.hoveredId + 1] =
                                 sc.pieceData[sc.hoveredId + 1].baseColor]
                         ELSE mesh.instanceColor
             lit      == IF InRange(newId, sc.pieceData) /\ newId < mesh.count
                         THEN [restored EXCEPT ![newId + 1] = White]
                         ELSE restored
         IN  [sc EXCEPT !.hoveredId = newId,
                        !.puzzleMesh = <<[mesh EXCEPT !.instanceColor = lit]>>]

\* an onPointerDown that also paints the piece it toggles
onPointerDownPaints(sc) ==
    IF InRange(sc.hoveredId, sc.pieceData)
    THEN [sc EXCEPT !.pieceData[sc.hoveredId + 1].picked =
                        ~sc.pieceData[sc.hoveredId + 1].picked,
                    !.pieceData[sc.hoveredId + 1].baseColor = White]
    ELSE sc

\* an onPointerDown that sets the flag instead of flipping it
onPointerDownSets(sc) ==
    IF InRange(sc.hoveredId, sc.pieceData)
    THEN [sc EXCEPT !.pieceData[sc.hoveredId + 1].picked = TRUE]
    ELSE sc

onPointerDown(sc) ==
    IF InRange(sc.hoveredId, sc.pieceData)
    THEN [sc EXCEPT !.pieceData[sc.hoveredId + 1].picked =
                        ~sc.pieceData[sc.hoveredId + 1].picked]
    ELSE sc

\* puzzleMesh.getMatrixAt(i, matrix), i counted from 0; past the buffer the
\* read is undefined (a matrix of NaN, written here with denominator 0)
GetMatrixAt(mesh, i) ==
    IF i < mesh.count THEN mesh.instanceMatrix[i + 1]
    ELSE DummyMatrix([position |-> RestPosition([v |-> <<0, 0, 0>>, d |-> 0]),
                      rotation |-> <<>>, scale |-> <<>>])

\* a merge that keeps the first geometry only
FirstTriangles(geometries) ==
    IF geometries = <<>> THEN 0 ELSE Head(geometries).triangles

\* the triangles of mergeGeometries(geometries)
RECURSIVE SumTriangles(_)
SumTriangles(geometries) ==
    IF geometries = <<>> THEN 0
    ELSE Head(geometries).triangles + SumTriangles(Tail(geometries))

\* an exportSTL that places every cube at its piece's rest position
exportRest(isMounted, sc) ==
    IF ~isMounted \/ sc.puzzleMesh = <<>> \/ Len(sc.pieceData) = 0 THEN <<>>
    ELSE <<[name      |-> "puzzle-lab-design.stl",
            cubes     |-> [i \in 1..Len(sc.pieceData) |->
                             DummyMatrix([position |-> RestPosition(sc.pieceData[i].position),
                                          rotation |-> <<>>, scale |-> <<>>])],
            cell      |-> sc.puzzleMesh[1].cell,
            triangles |-> CubeTriangles * Len(sc.pieceData)]>>

\* the file exportSTL hands to the browser: <<>> when it returns early
exportSTL(isMounted, sc) ==
    IF ~isMounted \/ sc.puzzleMesh = <<>> THEN <<>>
    ELSE LET mesh == sc.puzzleMesh[1]
             geometries == [i \in 1..Len(sc.pieceData) |->
                              [matrix |-> GetMatrixAt(mesh, i - 1),
                               cell |-> mesh.cell,
                               triangles |-> CubeTriangles]]
         IN  IF Len(geometries) = 0 THEN <<>>
             ELSE <<[name      |-> "puzzle-lab-design.stl",
                     cubes     |-> [i \in 1..Len(geometries) |-> geometries[i].matrix],
                     cell      |-> mesh.cell,
                     triangles |-> SumTriangles(geometries)]>>

(***************************************************************************)
(* App: params and its handlers                                             *)
(***************************************************************************)
defaultElement ==
    [id |-> "1", type |-> "Sphere", position |-> <<0, 0, 0>>,
     rotation |-> <<0, 0, 0>>, scale |-> PlaceDen, enabled |-> TRUE]

\* explode, noise and speed are in 1 / FixDen
AppParams(resolution) ==
    [mode |-> "SINGLE", elements |-> <<defaultElement>>, shape |-> "Sphere",
     resolution |-> resolution, explode |-> 0, noise |-> 400, speed |-> 1000,
     autoRotate |-> TRUE, isScrambled |-> FALSE, audioEnabled |-> FALSE]

\* the dependencies of the rebuild effect that are compared by value
StructuralKeys == {"shape", "resolution", "mode"}

\* the keys the claims call global animation scalars
ScalarKeys == {"explode", "noise", "speed", "autoRotate", "audioEnabled"}

\* what the next commit has to run: the [params] effect alone, or the rebuild
\* effect too.  A handler runs only once the previous commit's effects have
\* run (React flushes them before it renders again).
CanEdit == mounted /\ pending = "none"

handleParamsChange(key, value) ==
    /\ CanEdit
    /\ params' = [params EXCEPT ![key] = value]
    /\ pending' = IF key \in StructuralKeys /\ params[key] # value
                  THEN "rebuild" ELSE "params"

\* a handleToggleScramble whose commit runs the rebuild effect as well
handleToggleScrambleRebuilds ==
    /\ CanEdit
    /\ params' = [params EXCEPT !.isScrambled = ~params.isScrambled,
                                !.explode = IF ~params.isScrambled THEN 1000 ELSE 0,
                                !.noise = IF ~params.isScrambled THEN 800 ELSE 400]
    /\ pending' = "rebuild"

handleToggleScramble ==
    /\ CanEdit
    /\ params' = [params EXCEPT !.isScrambled = ~params.isScrambled,
                                !.explode = IF ~params.isScrambled THEN 1000 ELSE 0,
                                !.noise = IF ~params.isScrambled THEN 800 ELSE 400]
    /\ pending' = "params"

\* id is what Math.random().toString(36).substring(7) yields
handleAddElement(type, id) ==
    /\ CanEdit
    /\ params' = [params EXCEPT !.elements =
                     Append(params.elements,
                            [id |-> id, type |-> type, position |-> <<0, 0, 0>>,
                             rotation |-> <<0, 0, 0>>, scale |-> PlaceDen,
                             enabled |-> TRUE])]
    /\ pending' = "rebuild"

\* changes is {key: value}; elements.map always makes a new array
handleUpdateElement(id, key, value) ==
    /\ CanEdit
    /\ params' = [params EXCEPT !.elements =
                     [i \in 1..Len(params.elements) |->
                        IF params.elements[i].id = id
                        THEN [params.elements[i] EXCEPT ![key] = value]
                        ELSE params.elements[i]]]
    /\ pending' = "rebuild"

handleRemoveElement(id) ==
    /\ CanEdit
    /\ LET keep(el) == el.id # id
       IN  params' = [params EXCEPT !.elements = SelectSeq(params.elements, keep)]
    /\ pending' = "rebuild"

(***************************************************************************)
(* PuzzleScene: the scene as one record, and the steps that change it       *)
(***************************************************************************)
Scene ==
    [paramsRef |-> paramsRef, physicsState |-> physicsState,
     pieceData |-> pieceData, pieceBuild |-> pieceBuild,
     puzzleMesh |-> puzzleMesh, hoveredId |-> hoveredId, dummy |-> dummy,
     audio |-> audio, frame |-> frame, stats |-> stats, builds |-> builds]

SetScene(sc) ==
    /\ paramsRef' = sc.paramsRef
    /\ physicsState' = sc.physicsState
    /\ pieceData' = sc.pieceData
    /\ pieceBuild' = sc.pieceBuild
    /\ puzzleMesh' = sc.puzzleMesh
    /\ hoveredId' = sc.hoveredId
    /\ dummy' = sc.dummy
    /\ audio' = sc.audio
    /\ frame' = sc.frame
    /\ stats' = sc.stats
    /\ builds' = sc.builds

\* useRef(params), useRef({currentExplode: params.explode, ...}) and the
\* sceneData the mount effect creates
FirstScene(p) ==
    [paramsRef |-> p,
     physicsState |-> [currentExplode |-> FixOfMilli(p.explode),
                       currentNoise |-> FixOfMilli(p.noise),
                       targetExplode |-> FixOfMilli(p.explode),
                       targetNoise |-> FixOfMilli(p.noise)],
     pieceData |-> <<>>, pieceBuild |-> 0, puzzleMesh |-> <<>>, hoveredId |-> -1,
     dummy |-> NewDummy,
     audio |-> [calls |-> 0, pending |-> 0, analyser |-> FALSE],
     frame |-> 0, stats |-> [pieceCount |-> 0, audioLevel |-> 0], builds |-> 0]

\* useEffect(..., [params])
paramsEffect(sc, p) ==
    [sc EXCEPT !.paramsRef = p,
               !.physicsState.targetExplode = FixOfMilli(p.explode),
               !.physicsState.targetNoise = FixOfMilli(p.noise)]

\* the first commit: the [params] effect, the mount effect (rebuildPuzzle(),
\* then the first animate()), the rebuild effect
Mount(seed1, seed2) ==
    /\ ~mounted
    /\ mounted' = TRUE
    /\ SetScene(rebuildPuzzle(animate(rebuildPuzzle(paramsEffect(FirstScene(params), params),
                                                    seed1), 0), seed2))
    /\ download' = <<>>
    /\ UNCHANGED <<params, pending>>

\* a later commit whose rebuild dependencies are unchanged
CommitParams ==
    /\ mounted /\ pending = "params"
    /\ pending' = "none"
    /\ SetScene(paramsEffect(Scene, params))
    /\ download' = <<>>
    /\ UNCHANGED <<params, mounted>>

\* a commit whose rebuild effect runs before its [params] effect
CommitRebuildStale(seed) ==
    /\ mounted /\ pending = "rebuild"
    /\ pending' = "none"
    /\ SetScene(paramsEffect(rebuildPuzzle(Scene, seed), params))
    /\ download' = <<>>
    /\ UNCHANGED <<params, mounted>>

\* a later commit whose rebuild dependencies changed
CommitRebuild(seed) ==
    /\ mounted /\ pending = "rebuild"
    /\ pending' = "none"
    /\ SetScene(rebuildPuzzle(paramsEffect(Scene, params), seed))
    /\ download' = <<>>
    /\ UNCHANGED <<params, mounted>>

\* requestAnimationFrame(animate)
Tick(level) ==
    /\ mounted
    /\ SetScene(animate(Scene, level))
    /\ download' = <<>>
    /\ UNCHANGED <<params, pending, mounted>>

PointerMove(newId) ==
    /\ mounted
    /\ SetScene(onPointerMove(Scene, newId))
    /\ download' = <<>>
    /\ UNCHANGED <<params, pending, mounted>>

PointerDown ==
    /\ mounted
    /\ SetScene(onPointerDown(Scene))
    /\ download' = <<>>
    /\ UNCHANGED <<params, pending, mounted>>

\* handleExportSTL: sceneRef.current.exportSTL()
ExportSTL ==
    /\ download' = exportSTL(mounted, Scene)
    /\ UNCHANGED <<params, pending, mounted>>
    /\ UNCHANGED <<paramsRef, physicsState, pieceData, pieceBuild, puzzleMesh,
                   hoveredId, dummy, audio, frame, stats, builds>>

\* getUserMedia(...).then(stream => ...): the scene gets its analyser
AudioGranted ==
    /\ mounted /\ audio.pending > 0
    /\ audio' = [audio EXCEPT !.pending = audio.pending - 1, !.analyser = TRUE]
    /\ download' = <<>>
    /\ UNCHANGED <<params, pending, mounted>>
    /\ UNCHANGED <<paramsRef, physicsState, pieceData, pieceBuild, puzzleMesh,
                   hoveredId, dummy, frame, stats, builds>>

\* a handler of App changes params and pending only
Edited ==
    /\ download' = <<>>
    /\ UNCHANGED <<mounted, paramsRef, physicsState, pieceData, pieceBuild,
                   puzzleMesh, hoveredId, dummy, audio, frame, stats, builds>>

(***************************************************************************)
(* Bounds and input domains                                                 *)
(***************************************************************************)
\* frames rendered in a behaviour of Spec
MaxFrames == 2
\* rebuildPuzzle calls in a behaviour (the first commit makes two)
MaxBuilds == 3
\* the pointer reaches the first MaxHover instances
MaxHover == 1
\* design elements in the list
MaxElements == 2

Seeds == {0, 1}
ExplodeValues == {0, 1000}
NoiseValues == {0, 400}
SpeedValues == {0, 1000}
AudioLevels == {0, 100}
Ids == {"1", "a"}

\* controls of the panel held away from their initial values at one time
MaxTouched == 1

\* an edit that makes the next commit rebuild needs a rebuild in the budget
Budget ==
    /\ pending' = "rebuild" => builds < MaxBuilds
    /\ Len(params'.elements) <= MaxElements

\* the instances a ray can hit first: the pointer reaches MaxHover of them
HoverTargets ==
    {-1} \cup {i \in 0..(MaxHover - 1) : puzzleMesh # <<>> /\ i < puzzleMesh[1].count}

\* what the analyser reports: read only with audio enabled and granted
LevelInputs == IF paramsRef.audioEnabled /\ audio.analyser THEN AudioLevels ELSE {0}

Unobserved == UNCHANGED <<steady, remembered, asked, hoverBuild>>

EditShape == \E v \in Shapes : handleParamsChange("shape", v) /\ Edited /\ Budget
EditMode == \E v \in {"SINGLE", "DESIGNER"} : handleParamsChange("mode", v) /\ Edited /\ Budget
EditExplode == \E v \in ExplodeValues : handleParamsChange("explode", v) /\ Edited /\ Budget
EditNoise == \E v \in NoiseValues : handleParamsChange("noise", v) /\ Edited /\ Budget
EditSpeed == \E v \in SpeedValues : handleParamsChange("speed", v) /\ Edited /\ Budget
EditAutoRotate == \E v \in BOOLEAN : handleParamsChange("autoRotate", v) /\ Edited /\ Budget
EditAudio == \E v \in BOOLEAN : handleParamsChange("audioEnabled", v) /\ Edited /\ Budget
ToggleScramble == handleToggleScramble /\ Edited /\ Budget
\* handleUpdateElement takes any Partial<ShapeDesignElement>; the panel itself
\* has controls for type, scale, position and rotation, and none for enabled
EnableElement == \E id \in Ids, v \in BOOLEAN : handleUpdateElement(id, "enabled", v) /\ Edited /\ Budget

(***************************************************************************)
(* Spec: the scene from its first render on, with the pointer, the frames,  *)
(* the export and the edits that rebuild                                    *)
(***************************************************************************)
InitScene(p) ==
    /\ params = p
    /\ pending = "none"
    /\ mounted = FALSE
    /\ paramsRef = p
    /\ physicsState = FirstScene(p).physicsState
    /\ pieceData = <<>>
    /\ pieceBuild = 0
    /\ puzzleMesh = <<>>
    /\ hoveredId = -1
    /\ dummy = NewDummy
    /\ audio = FirstScene(p).audio
    /\ frame = 0
    /\ stats = FirstScene(p).stats
    /\ download = <<>>
    /\ builds = 0
    /\ steady = 0
    /\ remembered = <<>>
    /\ hoverBuild = 0

InitWith(p) == InitScene(p) /\ asked = <<>>

Init == InitWith(AppParams(2))

Next ==
    \/ (\E s1, s2 \in Seeds : Mount(s1, s2)) /\ Unobserved
    \/ CommitParams /\ Unobserved
    \/ (\E seed \in Seeds : CommitRebuild(seed)) /\ Unobserved
    \/ (\E level \in LevelInputs : frame < MaxFrames /\ Tick(level)) /\ Unobserved
    \/ (\E id \in HoverTargets : PointerMove(id)) /\ Unobserved
    \/ PointerDown /\ Unobserved
    \/ ExportSTL /\ Unobserved
    \/ EditShape /\ Unobserved
    \/ EditExplode /\ Unobserved

Spec == Init /\ [][Next]_vars

(***************************************************************************)
(* Properties of Spec                                                       *)
(***************************************************************************)
\* C2: whenever a tick, a pointer handler or exportSTL can start (the scene
\* is mounted), pieceData has exactly as many entries as the instanced mesh
\* has instances, every entry is a piece of the mesh's grid, and the store
\* and the mesh were made by the same, latest, rebuildPuzzle call.
C2_RebuildAtomic ==
    mounted =>
        /\ puzzleMesh # <<>>
        /\ Len(pieceData) = puzzleMesh[1].count
        /\ DOMAIN puzzleMesh[1].instanceMatrix = 1..Len(pieceData)
        /\ DOMAIN puzzleMesh[1].instanceColor = 1..Len(pieceData)
        /\ \A i \in 1..puzzleMesh[1].count :
              /\ pieceData[i].position.d = puzzleMesh[1].cell
              /\ pieceData[i].outward.lenSq = 1
        /\ pieceBuild = puzzleMesh[1].build
        /\ pieceBuild = builds

\* a rebuild after the first commit has emptied a store that frames were
\* drawn from, and the pointer still rests on an instance of the old mesh
C2_Witness ==
    /\ mounted /\ builds > 2 /\ frame > 1
    /\ Len(pieceData) = 0 /\ puzzleMesh # <<>> /\ puzzleMesh[1].count = 0
    /\ hoveredId = 0

\* C3: a step that runs no rebuildPuzzle (a tick, a pointer handler, an
\* export, an edit, a commit of scalars) leaves the number of pieces and
\* every field of every piece except picked as the build made them.
C3_PiecesFixed ==
    [][(mounted /\ builds' = builds) =>
          /\ Len(pieceData') = Len(pieceData)
          /\ \A i \in 1..Len(pieceData) :
                [pieceData'[i] EXCEPT !.picked = pieceData[i].picked] = pieceData[i]]_vars

\* an export of a build that has been drawn twice and has a picked piece
C3_Witness ==
    /\ mounted /\ frame > 1 /\ download # <<>>
    /\ \E i \in 1..Len(pieceData) : pieceData[i].picked

\* C6: with the pointer on piece i, onPointerDown flips the picked flag of
\* piece i and of no other piece, a second onPointerDown restores the store,
\* and between rebuilds no step changes a picked flag other than that of the
\* hovered piece.
C6_PickInvolution ==
    /\ [](mounted /\ InRange(hoveredId, pieceData) =>
            LET once  == onPointerDown(Scene)
                twice == onPointerDown(once)
            IN  /\ once.pieceData[hoveredId + 1].picked = ~pieceData[hoveredId + 1].picked
                /\ \A j \in 1..Len(pieceData) :
                      j # hoveredId + 1 => once.pieceData[j] = pieceData[j]
                /\ Len(once.pieceData) = Len(pieceData)
                /\ once.hoveredId = hoveredId
                /\ twice.pieceData = pieceData)
    /\ [][(mounted /\ builds' = builds) =>
            \A j \in 1..Len(pieceData) :
               pieceData'[j].picked # pieceData[j].picked =>
                  j = hoveredId + 1 /\ hoveredId' = hoveredId]_vars

\* a pointer-down has picked the hovered piece, and drawn frames lie between
C6_Witness ==
    /\ mounted /\ InRange(hoveredId, pieceData) /\ frame > 1
    /\ pieceData[hoveredId + 1].picked
    /\ \E j \in 1..Len(pieceData) : ~pieceData[j].picked

\* C7: the file exportSTL produces holds, for every piece index i, the
\* instance matrix stored at index i when exportSTL was called.
C7_ExportBakesCurrent ==
    download # <<>> =>
        /\ puzzleMesh # <<>>
        /\ DOMAIN download[1].cubes = 1..Len(pieceData)
        /\ \A i \in 1..Len(pieceData) :
              download[1].cubes[i] = puzzleMesh[1].instanceMatrix[i]

\* an export in which a cube is displaced by explode and one by its pick, so
\* that the exported cubes are not at their rest positions
C7_Witness ==
    /\ download # <<>>
    /\ \E i \in 1..Len(pieceData) : download[1].cubes[i].position.explode # <<>>
    /\ \E i \in 1..Len(pieceData) : download[1].cubes[i].position.pick # <<>>
    /\ \A i \in 1..Len(pieceData) :
          download[1].cubes[i].position # RestPosition(pieceData[i].position)

\* C8: exportSTL before the scene exists or on a store without pieces
\* produces no file and changes nothing; on a store of N >= 1 pieces it
\* produces one file of N cubes and 12 N triangles.
C8_ExportCount ==
    [][ExportSTL =>
          IF mounted /\ Len(pieceData) >= 1
          THEN /\ download' # <<>>
               /\ Len(download'[1].cubes) = Len(pieceData)
               /\ download'[1].triangles = 12 * Len(pieceData)
          ELSE /\ download' = <<>>
               /\ UNCHANGED sceneVars]_vars

\* an export of a store with more than one piece
C8_Witness ==
    /\ download # <<>> /\ Len(pieceData) > 1
    /\ download[1].triangles = 12 * Len(pieceData)

(***************************************************************************)
(* SpecScalars: one piece, the pointer, the frames, the microphone and the  *)
(* controls that change no rebuild dependency                               *)
(***************************************************************************)
\* the scramble button writes isScrambled, explode and noise
ControlOf(key) == IF key \in {"explode", "noise", "isScrambled"} THEN "scramble" ELSE key

Touched(p) ==
    {ControlOf(k) : k \in {k \in ScalarKeys \cup {"isScrambled"} :
                              p[k] # AppParams(p.resolution)[k]}}

FewTouched == Cardinality(Touched(params')) <= MaxTouched

InitScalars == InitWith(AppParams(1))

NextScalars ==
    \/ Mount(0, 0) /\ Unobserved
    \/ CommitParams /\ Unobserved
    \/ (\E level \in LevelInputs : frame < MaxFrames /\ Tick(level)) /\ Unobserved
    \/ (\E id \in HoverTargets : PointerMove(id)) /\ Unobserved
    \/ PointerDown /\ Unobserved
    \/ EditExplode /\ FewTouched /\ Unobserved
    \/ EditNoise /\ FewTouched /\ Unobserved
    \/ EditSpeed /\ FewTouched /\ Unobserved
    \/ EditAutoRotate /\ FewTouched /\ Unobserved
    \/ EditAudio /\ FewTouched /\ Unobserved
    \/ ToggleScramble /\ FewTouched /\ Unobserved
    \/ AudioGranted /\ Unobserved

SpecScalars == InitScalars /\ [][NextScalars]_vars

\* what the rebuild effect's dependencies compare
Structure(p) == <<p.shape, p.resolution, p.mode, p.elements>>

\* C4: a step that changes params in explode, noise, speed, autoRotate,
\* audioEnabled or isScrambled only schedules a commit without rebuild and
\* touches nothing of the scene; that commit runs no rebuildPuzzle, leaves
\* the pieces (picked flags included) and the mesh as they are, and changes
\* the physics state in targetExplode and targetNoise only, which become the
\* new explode and noise.
C4_ScalarsKeepPieces ==
    /\ [][(mounted /\ params' # params /\ Structure(params') = Structure(params)) =>
             /\ pending' = "params"
             /\ UNCHANGED <<pieceData, puzzleMesh, builds, pieceBuild,
                            physicsState, paramsRef>>]_vars
    /\ [][(mounted /\ pending = "params" /\ pending' # pending) =>
             /\ pending' = "none"
             /\ UNCHANGED <<pieceData, puzzleMesh, builds, pieceBuild>>
             /\ paramsRef' = params
             /\ physicsState' =
                   [physicsState EXCEPT !.targetExplode = FixOfMilli(params.explode),
                                        !.targetNoise = FixOfMilli(params.noise)]]_vars

\* the scramble toggle has been committed over a picked piece: the targets
\* are the new explode and noise, the current values have not moved yet
C4_Witness ==
    /\ mounted /\ pending = "none" /\ paramsRef.isScrambled
    /\ \E i \in 1..Len(pieceData) : pieceData[i].picked
    /\ physicsState.targetExplode = FixOfMilli(1000)
    /\ physicsState.targetNoise = FixOfMilli(800)
    /\ physicsState.currentExplode = FixZero

(***************************************************************************)
(* SpecSampler: PuzzleScene mounted in Designer mode on an element list,    *)
(* whose elements are then switched on and off                              *)
(***************************************************************************)
SamplerResolutions == {2}

\* the placements of the menu: moved, and moved, turned and grown
SamplerPlacements ==
    { [position |-> <<5, 5, 5>>, rotation |-> <<0, 0, 0>>, scale |-> PlaceDen],
      [position |-> <<5, 5, 5>>, rotation |-> <<1, 0, 0>>, scale |-> 2 * PlaceDen] }

SamplerElements ==
    { [id |-> "1", type |-> t, position |-> pl.position, rotation |-> pl.rotation,
       scale |-> pl.scale, enabled |-> en] :
         t \in Shapes, pl \in SamplerPlacements, en \in BOOLEAN }

\* the id of the i-th element of a list
IdAt(i) == IF i = 1 THEN "1" ELSE IF i = 2 THEN "a" ELSE "b"

SamplerLists ==
    UNION { { [i \in 1..n |-> [els[i] EXCEPT !.id = IdAt(i)]] :
                els \in [1..n -> SamplerElements] } : n \in 0..MaxElements }

InitSampler ==
    \E res \in SamplerResolutions, els \in SamplerLists :
        InitWith([AppParams(res) EXCEPT !.mode = "DESIGNER", !.elements = els])

NextSampler ==
    \/ Mount(0, 0) /\ Unobserved
    \/ EnableElement /\ Unobserved
    \/ (\E seed \in Seeds : CommitRebuild(seed)) /\ Unobserved

SpecSampler == InitSampler /\ [][NextSampler]_vars

\* the element's local shape contains the point that its placement carries
\* to p, found by the inverse placement
ElementContains(el, p) ==
    LET m == ComposeMatrix(el)
        q == ApplyMatrix4(p, InvertMatrix(m))
    IN  SamePoint(PlacePoint(m, q), p) /\ isPointInShape(el.type, q)

\* C1: after a rebuild in Designer mode the pieces are exactly the cell
\* centres, each once, that some enabled element contains once the centre is
\* mapped through that element's inverse placement; with no enabled element
\* there is no piece.
C1_DesignerUnion ==
    (mounted /\ paramsRef.mode = "DESIGNER") =>
        LET res == paramsRef.resolution
            els == paramsRef.elements
            kept == {pieceData[i].position : i \in 1..Len(pieceData)}
        IN  /\ \A k \in 0..(res * res * res - 1) :
                  GridPoint(res, k) \in kept <=>
                      \E j \in 1..Len(els) :
                          els[j].enabled /\ ElementContains(els[j], GridPoint(res, k))
            /\ Cardinality(kept) = Len(pieceData)
            /\ (\A j \in 1..Len(els) : ~els[j].enabled) => Len(pieceData) = 0

\* two enabled elements, each keeping a cell the other does not, and a third
\* cell kept by neither
C1_Witness ==
    /\ mounted /\ paramsRef.mode = "DESIGNER" /\ builds > 2
    /\ Len(paramsRef.elements) = 2
    /\ paramsRef.elements[1].enabled /\ paramsRef.elements[2].enabled
    /\ LET res == paramsRef.resolution
           els == paramsRef.elements
           cells == {GridPoint(res, k) : k \in 0..(res * res * res - 1)}
           kept == {pieceData[i].position : i \in 1..Len(pieceData)}
       IN  /\ \E p \in kept : ElementContains(els[1], p) /\ ~ElementContains(els[2], p)
           /\ \E p \in kept : ElementContains(els[2], p) /\ ~ElementContains(els[1], p)
           /\ \E p \in cells : p \notin kept

\* every element has been switched off after the mount, and the store is empty
C1_WitnessOff ==
    /\ mounted /\ paramsRef.mode = "DESIGNER" /\ builds > 2
    /\ Len(paramsRef.elements) = 2
    /\ \A j \in 1..2 : ~paramsRef.elements[j].enabled
    /\ Len(pieceData) = 0

(***************************************************************************)
(* Observer of builds: remembered keeps one store for comparison with later *)
(* ones                                                                     *)
(***************************************************************************)
Snapshot(sc) ==
    [structure |-> Structure(sc.paramsRef), pieceData |-> sc.pieceData,
     build |-> sc.pieceBuild]

\* the observer remembers the store as it is now
Observe ==
    /\ mounted /\ remembered = <<>>
    /\ remembered' = <<Snapshot(Scene)>>
    /\ UNCHANGED <<sceneVars, download, steady, asked, hoverBuild>>

\* the first commit, of which the observer may remember the first build
MountObserved(seed1, seed2) ==
    /\ Mount(seed1, seed2)
    /\ remembered' \in {<<>>, <<Snapshot(rebuildPuzzle(paramsEffect(FirstScene(params), params),
                                                       seed1))>>}
    /\ UNCHANGED <<steady, asked, hoverBuild>>

RestPositions(data) == [i \in 1..Len(data) |-> data[i].position]

BaseColors(data) == [i \in 1..Len(data) |-> data[i].baseColor]

(***************************************************************************)
(* SpecBuilds: rebuilds of one structure with frames, picks and other       *)
(* random draws in between                                                  *)
(***************************************************************************)
NextBuilds ==
    \/ (\E s1, s2 \in Seeds : MountObserved(s1, s2))
    \/ Observe
    \/ CommitParams /\ Unobserved
    \/ (\E seed \in Seeds : CommitRebuild(seed)) /\ Unobserved
    \/ (\E level \in LevelInputs : frame < MaxFrames /\ Tick(level)) /\ Unobserved
    \/ (\E id \in HoverTargets : PointerMove(id)) /\ Unobserved
    \/ PointerDown /\ Unobserved
    \/ EditShape /\ Unobserved
    \/ EnableElement /\ Unobserved

SpecBuilds == Init /\ [][NextBuilds]_vars

\* C9: a store built from the same mode, shape, resolution and element list
\* as a remembered store of another build has the same rest positions in the
\* same order, hence the same count, and the same baseColor at every index.
C9_RebuildDeterministic ==
    (/\ mounted /\ remembered # <<>>
     /\ remembered[1].structure = Structure(paramsRef)
     /\ remembered[1].build # pieceBuild)
    => /\ RestPositions(pieceData) = RestPositions(remembered[1].pieceData)
       /\ BaseColors(pieceData) = BaseColors(remembered[1].pieceData)

\* the remembered store had a picked piece and was drawn; the store built
\* after it from the same structure drew other random numbers
C9_Witness ==
    /\ mounted /\ remembered # <<>> /\ frame > 1
    /\ remembered[1].structure = Structure(paramsRef)
    /\ remembered[1].build = 2 /\ pieceBuild = 3
    /\ Len(pieceData) > 1
    /\ \E i \in 1..Len(remembered[1].pieceData) : remembered[1].pieceData[i].picked
    /\ \E i \in 1..Len(pieceData) :
          pieceData[i].randPhase # remembered[1].pieceData[i].randPhase

(***************************************************************************)
(* SpecScenario: the scene at resolution 10, switched between Single and    *)
(* Designer mode                                                            *)
(***************************************************************************)
ScenarioResolution == 5 + 5

InitScenario == InitWith(AppParams(ScenarioResolution))

NextScenario ==
    \/ (\E s1, s2 \in Seeds : MountObserved(s1, s2))
    \/ Observe
    \/ CommitParams /\ Unobserved
    \/ (\E seed \in Seeds : CommitRebuild(seed)) /\ Unobserved
    \/ (\E id \in HoverTargets : PointerMove(id)) /\ Unobserved
    \/ EditMode /\ Unobserved
    \/ EditShape /\ Unobserved

SpecScenario == InitScenario /\ [][NextScenario]_vars

\* Single mode, shape Sphere, resolution 10
IsSingleSphere(structure) ==
    structure[1] = "Sphere" /\ structure[2] = 10 /\ structure[3] = "SINGLE"

\* Designer mode, resolution 10, one enabled Sphere at the origin, not
\* turned, of scale 1
IsDesignerSphere(structure) ==
    /\ structure[2] = 10 /\ structure[3] = "DESIGNER"
    /\ Len(structure[4]) = 1
    /\ structure[4][1].enabled /\ structure[4][1].type = "Sphere"
    /\ structure[4][1].position = <<0, 0, 0>>
    /\ structure[4][1].rotation = <<0, 0, 0>>
    /\ structure[4][1].scale = PlaceDen

\* C10: at resolution 10 a store built in Designer mode from one enabled
\* Sphere at the origin, not turned, of scale 1, and a store built in Single
\* mode with shape Sphere hold the same cells, hence equally many pieces.
C10_IdentitySphere ==
    (/\ mounted /\ remembered # <<>>
     /\ \/ IsSingleSphere(remembered[1].structure) /\ IsDesignerSphere(Structure(paramsRef))
        \/ IsDesignerSphere(remembered[1].structure) /\ IsSingleSphere(Structure(paramsRef)))
    => /\ {pieceData[i].position : i \in 1..Len(pieceData)} =
             {remembered[1].pieceData[i].position : i \in 1..Len(remembered[1].pieceData)}
       /\ Len(pieceData) = Len(remembered[1].pieceData)

\* a Designer store of the one Sphere beside the remembered Single store of
\* shape Sphere, with cells kept and cells dropped
C10_Witness ==
    /\ mounted /\ remembered # <<>>
    /\ IsSingleSphere(remembered[1].structure)
    /\ IsDesignerSphere(Structure(paramsRef))
    /\ pieceBuild = 3
    /\ Len(pieceData) > 100 /\ Len(pieceData) < 900

\* C11: at resolution 10 a store built in Single mode with shape Box holds
\* exactly the cells whose centre has max(|x|, |y|, |z|) <= 0.72: of the
\* centres -0.9, -0.7, ..., 0.9 on an axis the 8 from -0.7 to 0.7, 512 pieces
\* in all.
C11_BoxCount ==
    LET centres == {2 * i + 1 - 10 : i \in 0..9}
        kept    == {c \in centres : 10 * Abs(c) <= 72}
    IN  (/\ mounted /\ paramsRef.mode = "SINGLE" /\ paramsRef.shape = "Box"
         /\ paramsRef.resolution = 10)
        => /\ Len(pieceData) = 512
           /\ Cardinality(kept) = 8
           /\ {pieceData[i].position : i \in 1..Len(pieceData)} =
                 {[v |-> <<x, y, z>>, d |-> 10] : x \in kept, y \in kept, z \in kept}
           /\ puzzleMesh[1].count = 512

\* a Box store that replaced the Sphere store of the first commit
C11_Witness ==
    /\ mounted /\ paramsRef.mode = "SINGLE" /\ paramsRef.shape = "Box"
    /\ paramsRef.resolution = 10 /\ pending = "none"
    /\ pieceBuild = 3 /\ Len(pieceData) = 512

(***************************************************************************)
(* SpecSmooth: one piece drawn for many frames; the scramble button and the *)
(* microphone switch are used at a few frames, the room is loud             *)
(***************************************************************************)
\* frames rendered in a behaviour of SpecSmooth
SmoothFrames == 132
\* the frames at which the panel is used, and at which the microphone is
\* granted
EditFrames == {1, 41}
GrantFrames == {2}
\* what the analyser reports in the loud room
LoudLevel == 6 * 10

LoudInputs == IF paramsRef.audioEnabled /\ audio.analyser THEN {LoudLevel} ELSE {0}

\* steady counts the ticks since the targets the ticks chase last changed:
\* a tick that raises them by the audio level and a commit that changes
\* them start the count again
MountSmooth == Mount(0, 0) /\ steady' = 0 /\ UNCHANGED <<remembered, asked, hoverBuild>>

TickSmooth ==
    \E level \in LoudInputs :
        /\ frame < SmoothFrames /\ pending = "none"
        /\ Tick(level)
        /\ steady' = IF paramsRef.audioEnabled /\ level > 0 THEN 0 ELSE steady + 1
        /\ UNCHANGED <<remembered, asked, hoverBuild>>

CommitSmooth ==
    /\ CommitParams
    /\ steady' = IF /\ physicsState.targetExplode = FixOfMilli(params.explode)
                    /\ physicsState.targetNoise = FixOfMilli(params.noise)
                 THEN steady ELSE 0
    /\ UNCHANGED <<remembered, asked, hoverBuild>>

NextSmooth ==
    \/ MountSmooth
    \/ TickSmooth
    \/ CommitSmooth
    \/ frame \in EditFrames /\ ToggleScramble /\ Unobserved
    \/ frame \in EditFrames /\ EditAudio /\ Unobserved
    \/ frame \in GrantFrames /\ AudioGranted /\ Unobserved

SpecSmooth == InitScalars /\ [][NextSmooth]_vars

\* |target - current| of the two smoothed values of a physics state
ExplodeGapOf(ps) == FixDist(ps.currentExplode, ps.targetExplode)

NoiseGapOf(ps) == FixDist(ps.currentNoise, ps.targetNoise)

ExplodeGap == ExplodeGapOf(physicsState)

NoiseGap == NoiseGapOf(physicsState)

\* C5: a tick with the audio switched off multiplies both gaps
\* |target - current| by 23 / 25 = 0.92 exactly; the gaps are never above
\* 1.5; and once 88 ticks have run since the targets last changed, both gaps
\* are at most 1 / 1000, on that tick and on every later one.
C5_Smoothing ==
    /\ [][(mounted /\ frame' = frame + 1 /\ ~paramsRef.audioEnabled) =>
             /\ FixTimes(ExplodeGapOf(physicsState'), LerpDen)
                    = FixTimes(ExplodeGap, LerpDen - LerpNum)
             /\ FixTimes(NoiseGapOf(physicsState'), LerpDen)
                    = FixTimes(NoiseGap, LerpDen - LerpNum)]_vars
    /\ [](mounted => /\ FixLeq(ExplodeGap, FixOfMilli(1500))
                     /\ FixLeq(NoiseGap, FixOfMilli(1500)))
    /\ [](steady >= 88 => /\ FixLeq(ExplodeGap, FixOfMilli(1))
                          /\ FixLeq(NoiseGap, FixOfMilli(1)))

\* 88 ticks after the scramble and the microphone were switched off in the
\* loud room: both values have come within 1 / 1000 of their targets
C5_Witness ==
    /\ mounted /\ steady = 88 /\ ~paramsRef.audioEnabled
    /\ frame > 100
    /\ FixLess(FixZero, ExplodeGap) /\ FixLeq(ExplodeGap, FixOfMilli(1))
    /\ FixLess(FixZero, NoiseGap) /\ FixLeq(NoiseGap, FixOfMilli(1))

\* one tick earlier the explode value is still further than 1 / 1000 away
C5_WitnessTight ==
    /\ mounted /\ steady = 87 /\ ~paramsRef.audioEnabled
    /\ FixLess(FixOfMilli(1), ExplodeGap)

\* C12: a tick that hears audioLevel > 0 with the audio enabled moves
\* currentExplode towards min(explode + 0.9 audioLevel, 1.5) and currentNoise
\* towards min(noise + 0.8 audioLevel, 1.0), explode and noise being the
\* parameter values; it leaves the stored targets alone, and the stored
\* targets always equal the parameter values the scene holds.
C12_BoostPerTick ==
    /\ [](mounted => /\ physicsState.targetExplode = FixOfMilli(paramsRef.explode)
                     /\ physicsState.targetNoise = FixOfMilli(paramsRef.noise))
    /\ [][(/\ mounted /\ frame' = frame + 1
           /\ paramsRef.audioEnabled /\ audio.analyser /\ LoudLevel > 0) =>
             LET boostedExplode == paramsRef.explode + 9 * LoudLevel
                 boostedNoise   == paramsRef.noise + 8 * LoudLevel
                 chasedExplode  == IF boostedExplode <= 1500 THEN boostedExplode ELSE 1500
                 chasedNoise    == IF boostedNoise <= 1000 THEN boostedNoise ELSE 1000
             IN  /\ physicsState'.currentExplode =
                        Chase(physicsState.currentExplode, FixOfMilli(chasedExplode))
                 /\ physicsState'.currentNoise =
                        Chase(physicsState.currentNoise, FixOfMilli(chasedNoise))
                 /\ physicsState'.targetExplode = physicsState.targetExplode
                 /\ physicsState'.targetNoise = physicsState.targetNoise]_vars

\* loud ticks have carried currentExplode above the stored target 1.0 (the
\* clamp at 1.5 is chased) while the noise chases 0.8 + 0.48 clamped to 1.0
C12_Witness ==
    /\ mounted /\ paramsRef.audioEnabled /\ audio.analyser /\ frame > 10
    /\ paramsRef.explode = 1000 /\ paramsRef.noise = 800
    /\ FixLess(physicsState.targetExplode, physicsState.currentExplode)
    /\ FixLess(physicsState.targetNoise, physicsState.currentNoise)

\* loud ticks without the scramble: explode chases 0.54 and noise 0.88,
\* neither clamped
C12_WitnessUnclamped ==
    /\ mounted /\ paramsRef.audioEnabled /\ audio.analyser /\ frame > 10
    /\ paramsRef.explode = 0 /\ paramsRef.noise = 400
    /\ FixLess(FixOfMilli(400), physicsState.currentExplode)
    /\ FixLess(FixOfMilli(800), physicsState.currentNoise)


(***************************************************************************)
(* isPointInShape on its own: one call per step, on a point, a kind and the *)
(* outcomes of the float calls for them.                                    *)
(***************************************************************************)
Pt(x, y, z, d) == [v |-> <<x, y, z>>, d |-> d]

\* the origin, points at distance 10, piece centres of a resolution 10 grid,
\* and points x / 15 whose Julia start value is a multiple of 1 / 5
ShapePoints ==
    {Pt(0, 0, 0, 1), Pt(0, 0, 0, 10)}
    \cup {Pt(10, 0, 0, 1), Pt(-10, 0, 0, 1), Pt(0, 10, 0, 1), Pt(0, 0, 10, 1),
          Pt(6, 8, 0, 1), Pt(0, 6, -8, 1), Pt(8, 0, 6, 1),
          Pt(20, 20, 10, 3), Pt(-20, 10, 20, 3)}
    \cup {Pt(x, y, z, 10) : x \in {-6, 1, 4}, y \in {-3, 1, 8}, z \in {-1, 1, 2}}
    \cup {Pt(4, 4, 0, 15), Pt(-10, 8, 0, 15), Pt(2, 2, 0, 15), Pt(-2, -6, 0, 15),
          Pt(-8, 2, 6, 15), Pt(12, 12, 6, 15)}

BulbClasses == {"bounded", "escaped", "tiny"}

\* the loop stops at the first value that escaped or is tiny: the classes
\* after it repeat it
BulbOrbits ==
    {o \in [1..BulbMaxIter -> BulbClasses] :
        \A k \in 1..(BulbMaxIter - 1) : o[k] # "bounded" => o[k + 1] = o[k]}

\* (cos, sin) of an angle as a rational point of the unit circle
Turns == {<<1, 0, 1>>, <<0, 1, 1>>, <<3, 4, 5>>, <<-4, 3, 5>>, <<-1, 0, 1>>,
          <<5, -12, 13>>}

NoFloats == [wave |-> FALSE, orbit |-> [k \in 1..BulbMaxIter |-> "bounded"],
             powers |-> FALSE, turn |-> <<1, 0, 1>>]

\* what the float calls may give for a kind at a point: sin(0) = 0 and
\* cos(0) = 1 are exact, so at the origin the Gyroid sum is 0 and the
\* SchwarzP sum is 3
FloatsFor(shape, p) ==
    IF shape = "Gyroid"
    THEN {[NoFloats EXCEPT !.wave = w] :
             w \in IF Dot(p.v, p.v) = 0 THEN {TRUE} ELSE BOOLEAN}
    ELSE IF shape = "SchwarzP"
    THEN {[NoFloats EXCEPT !.wave = w] :
             w \in IF Dot(p.v, p.v) = 0 THEN {FALSE} ELSE BOOLEAN}
    ELSE IF shape = "Mandelbulb"
    THEN {[NoFloats EXCEPT !.orbit = o] : o \in BulbOrbits}
    ELSE IF shape = "Star"
    THEN {[NoFloats EXCEPT !.powers = w] : w \in BOOLEAN}
    ELSE IF shape = "Twist"
    THEN {[NoFloats EXCEPT !.turn = t] :
             t \in IF p.v[2] = 0 THEN {<<1, 0, 1>>} ELSE Turns}
    ELSE {NoFloats}

\* the arguments of the call
InitShapes ==
    /\ InitScene(AppParams(1))
    /\ \E shape \in ShapeKinds, p \in ShapePoints :
         \E fl \in FloatsFor(shape, p) :
            asked = << [shape |-> shape, p |-> p, fl |-> fl] >>

\* the call returns
Ask ==
    /\ Len(asked) = 1
    /\ asked' = Append(asked, isPointInShapeWith(asked[1].shape, asked[1].p,
                                                 asked[1].fl))
    /\ UNCHANGED <<sceneVars, download, steady, remembered, hoverBuild>>

NextShapes == Ask

SpecShapes == InitShapes /\ [][NextShapes]_vars

\* the arguments and the answer of a call that has returned
Asked == [shape |-> asked[1].shape, p |-> asked[1].p, fl |-> asked[1].fl,
          inside |-> asked[2]]

Answered == Len(asked) = 2

AtOrigin(p) == Dot(p.v, p.v) = 0

\* C13: isPointInShape answers true at the origin for Sphere, Box and Atom,
\* and false for each of the eleven kinds at every point at distance 10 from
\* the origin.
C13_OriginAndFar ==
    Answered =>
        /\ (AtOrigin(Asked.p) /\ Asked.shape \in {"Sphere", "Box", "Atom"})
              => Asked.inside
        /\ Dot(Asked.p.v, Asked.p.v) = 100 * Asked.p.d * Asked.p.d
              => ~Asked.inside

\* the Atom was asked about the origin
C13_Witness ==
    /\ Answered /\ Asked.shape = "Atom" /\ AtOrigin(Asked.p) /\ Asked.inside

\* the Twist was asked about (20, 20, 10) / 3 with the turn (5, -12) / 13
C13_WitnessFar ==
    /\ Answered /\ Asked.shape = "Twist" /\ Asked.p = Pt(20, 20, 10, 3)
    /\ Asked.fl.turn = <<5, -12, 13>> /\ ~Asked.inside


\* C16: for Mandelbulb and Julia a point of norm <= 1.2 is inside if and only
\* if the squared norm of the start value and of the result of every
\* application of the map, the last one included, is <= 4.
C16_BoundedThroughout ==
    (Answered /\ ~FarOut(Asked.p)) =>
        /\ Asked.shape = "Julia" =>
              (Asked.inside <=> JuliaBoundedThrough(JuliaStart(Asked.p), 0))
        /\ Asked.shape = "Mandelbulb" =>
              (Asked.inside <=>
                  \A k \in 0..BulbMaxIter :
                      BulbClass(Asked.p, Asked.fl, k) # "escaped")


\* the sign test a^3 - x^2 y^3 - 0.1125 z^2 y^3 <= 0 with
\* a = x^2 + 2.25 z^2 + y^2 - 1 at (X / D, Y / D, Z / D), multiplied through
\* by 10^6 D^6
CubicNotPositive(X, Y, Z, D) ==
    LET a100 == ZSub(ZAdd(ZAdd(ZMul(ZOf(100), ZOf(X * X)), ZMul(ZOf(225), ZOf(Z * Z))),
                          ZMul(ZOf(100), ZOf(Y * Y))),
                     ZMul(ZOf(100), ZOf(D * D)))
        y3   == ZMul(ZOf(Y * Y), ZOf(Y))
        dy3  == ZMul(ZOf(D), y3)
    IN  ZLeq(ZSub(ZSub(ZMul(a100, ZMul(a100, a100)),
                       ZMul(ZOf(10 ^ 6), ZMul(ZOf(X * X), dy3))),
                  ZMul(ZOf(112500), ZMul(ZOf(Z * Z), dy3))),
             ZOf(0))

\* C17 as stated: the Heart's cubic is evaluated at x' = 1.3 x,
\* y' = 1.3 y + 0.13, z' = 1.3 z.
C17_HeartOffset13 ==
    (Answered /\ Asked.shape = "Heart") =>
        (Asked.inside <=>
            CubicNotPositive(130 * Asked.p.v[1], 130 * Asked.p.v[2] + 13 * Asked.p.d,
                             130 * Asked.p.v[3], 100 * Asked.p.d))

\* C17: Heart membership is a^3 - x^2 y^3 - 0.1125 z^2 y^3 <= 0 with
\* a = x^2 + 2.25 z^2 + y^2 - 1, evaluated at x' = 1.3 x, y' = 1.3 y + 0.1,
\* z' = 1.3 z.
C17_HeartCubic ==
    (Answered /\ Asked.shape = "Heart") =>
        (Asked.inside <=>
            CubicNotPositive(13 * Asked.p.v[1], 13 * Asked.p.v[2] + Asked.p.d,
                             13 * Asked.p.v[3], 10 * Asked.p.d))

\* (-0.6, 0.8, 0.1) is inside: the cubic is -0.0575 there with the offset
\* 0.1 and +0.0692 with the offset 0.13
C17_Witness ==
    /\ Answered /\ Asked.shape = "Heart" /\ Asked.p = Pt(-6, 8, 1, 10)
    /\ Asked.inside
    /\ ~CubicNotPositive(130 * (-6), 130 * 8 + 13 * 10, 130 * 1, 100 * 10)

\* (0.1, 0.8, 0.1) is outside with either offset
C17_WitnessOutside ==
    /\ Answered /\ Asked.shape = "Heart" /\ Asked.p = Pt(1, 8, 1, 10)
    /\ ~Asked.inside


(***************************************************************************)
(* SpecElements: the Designer's list under add, update and remove.  The id  *)
(* of a new element is Math.random().toString(36).substring(7), any string  *)
(* of Ids.                                                                  *)
(***************************************************************************)
\* rebuildPuzzle calls in a behaviour of SpecElements
MaxListBuilds == 5
\* elements the list holds at one time
MaxList == 3

ListBudget == builds < MaxListBuilds /\ Len(params'.elements) <= MaxList

\* the Add button, with the shape the panel's select shows
AddToList ==
    \E id \in Ids, type \in {"Box"} :
        handleAddElement(type, id) /\ Edited /\ ListBudget

\* an element's controls: handleUpdateElement(el.id, changes)
UpdateInList ==
    \E id \in {params.elements[i].id : i \in 1..Len(params.elements)},
       change \in {<<"enabled", FALSE>>, <<"enabled", TRUE>>,
                               <<"type", "Box">>, <<"type", "Sphere">>} :
        handleUpdateElement(id, change[1], change[2]) /\ Edited /\ ListBudget

\* an element's remove button: handleRemoveElement(el.id)
RemoveFromList ==
    \E id \in {params.elements[i].id : i \in 1..Len(params.elements)} :
        handleRemoveElement(id) /\ Edited /\ ListBudget

NextElements ==
    \/ Mount(0, 0) /\ Unobserved
    \/ CommitRebuild(0) /\ Unobserved
    \/ AddToList /\ Unobserved
    \/ UpdateInList /\ Unobserved
    \/ RemoveFromList /\ Unobserved

SpecElements == InitScalars /\ [][NextElements]_vars

\* C14: the elements of the list have ids different from one another, so an
\* update by id changes at most one element and a remove by id takes out one
\* element and keeps the others in their order.
C14_UniqueIds ==
    [][LET old     == params.elements
           new     == params'.elements
           changed == {i \in 1..Len(old) : i <= Len(new) /\ old[i] # new[i]}
       IN  /\ \A i, j \in 1..Len(new) : i # j => new[i].id # new[j].id
           /\ Len(new) = Len(old) => Cardinality(changed) <= 1
           /\ Len(new) < Len(old) =>
                 \E k \in 1..Len(old) :
                     new = [i \in 1..(Len(old) - 1) |->
                               IF i < k THEN old[i] ELSE old[i + 1]]]_vars


\* C15: the store the animator draws is always the one sampled from the
\* parameters it reads; a step in which those change in shape, resolution,
\* mode or elements runs rebuildPuzzle; and every step that runs
\* rebuildPuzzle leaves a store sampled from the parameters the App holds,
\* which are then the ones the animator reads.
C15_RebuildFresh ==
    /\ [](mounted => /\ RestPositions(pieceData) = SamplePositions(paramsRef)
                     /\ puzzleMesh[1].count = Len(pieceData))
    /\ [][(mounted /\ Structure(paramsRef') # Structure(paramsRef)) =>
             /\ builds' = builds + 1
             /\ pieceBuild' = builds']_vars
    /\ [][builds' # builds =>
             /\ paramsRef' = params
             /\ RestPositions(pieceData') = SamplePositions(params)]_vars

\* the shape was changed to Box and the commit rebuilt the store with the
\* eight cells of the Box; two frames were drawn on the way
C15_Witness ==
    /\ mounted /\ pending = "none" /\ builds = 3 /\ pieceBuild = 3
    /\ paramsRef.shape = "Box" /\ Len(pieceData) = 8
    /\ frame = 2


(***************************************************************************)
(* SpecOutward: stores of an even and an odd resolution of the slider; the  *)
(* odd one has a cell whose centre is the origin.                           *)
(***************************************************************************)
OutwardResolutions == {10, 11}

InitOutward == \E res \in OutwardResolutions : InitWith(AppParams(res))

NextOutward ==
    \/ (\E s1, s2 \in Seeds : Mount(s1, s2)) /\ Unobserved
    \/ CommitParams /\ Unobserved
    \/ (\E seed \in Seeds : CommitRebuild(seed)) /\ Unobserved
    \/ (\E id \in HoverTargets : PointerMove(id)) /\ Unobserved
    \/ PointerDown /\ Unobserved
    \/ EditShape /\ Unobserved
    \/ EditMode /\ Unobserved

SpecOutward == InitOutward /\ [][NextOutward]_vars

\* C18: the outward direction of every piece is a unit vector: the one along
\* the rest position, or (0, 1, 0) for a piece whose rest position is the
\* origin; it is never the zero vector.
C18_OutwardUnit ==
    \A i \in 1..Len(pieceData) :
        LET pos == pieceData[i].position.v
            out == pieceData[i].outward
        IN  /\ out.lenSq = 1
            /\ out.dir # <<0, 0, 0>>
            /\ IF pos = <<0, 0, 0>>
               THEN out.dir = <<0, 1, 0>>
               ELSE /\ \A k, l \in 1..3 : out.dir[k] * pos[l] = out.dir[l] * pos[k]
                    /\ Dot(out.dir, pos) > 0

\* a store of resolution 11 with the piece at the origin, whose outward is
\* (0, 1, 0), among pieces elsewhere
C18_Witness ==
    /\ mounted /\ paramsRef.resolution = 11
    /\ \E i \in 1..Len(pieceData) :
          /\ pieceData[i].position.v = <<0, 0, 0>>
          /\ pieceData[i].outward = UnitY
    /\ \E i \in 1..Len(pieceData) : pieceData[i].position.v = <<-4, 2, 6>>


(***************************************************************************)
(* SpecHover: the pointer and rebuilds, with the observer noting the build  *)
(* that stood when onPointerMove last ran                                   *)
(***************************************************************************)
Unhovered == UNCHANGED <<steady, remembered, asked>>

NextHover ==
    \/ (\E s1, s2 \in Seeds : Mount(s1, s2)) /\ Unobserved
    \/ CommitParams /\ Unobserved
    \/ (\E seed \in Seeds : CommitRebuild(seed)) /\ Unobserved
    \/ (\E id \in HoverTargets : PointerMove(id)) /\ hoverBuild' = builds /\ Unhovered
    \/ PointerDown /\ Unobserved
    \/ EditShape /\ Unobserved
    \/ EditMode /\ Unobserved

SpecHover == InitOutward /\ [][NextHover]_vars

\* the pieces whose picked flag a step changes, where the store keeps its
\* length
Toggled ==
    IF Len(pieceData') # Len(pieceData) THEN {}
    ELSE {i \in 1..Len(pieceData) : pieceData'[i].picked # pieceData[i].picked}

\* C19: a step that runs rebuildPuzzle leaves every piece unpicked; any other
\* step that changes a picked flag is a pointer-down that flips the one piece
\* at the hover index, and that index was recorded by a pointer-move that ran
\* after the last rebuild.
C19_PickFromCurrentHit ==
    [][/\ builds' # builds => \A i \in 1..Len(pieceData') : ~pieceData'[i].picked
       /\ (builds' = builds /\ Toggled # {}) =>
             /\ Toggled = {hoveredId + 1}
             /\ hoverBuild = builds]_vars


\* C20: a step that runs rebuildPuzzle leaves, for every piece, an instance
\* matrix that is the translation to the piece's rest position, with no
\* rotation and with scale 1, whatever the frames drawn before have left.
C20_RebuildTransformsAtRest ==
    [][builds' # builds =>
          \A i \in 1..Len(pieceData') :
              puzzleMesh'[1].instanceMatrix[i] =
                  [position |-> RestPosition(pieceData'[i].position),
                   rotation |-> <<>>, scale |-> <<>>]]_vars


\* C21: initAudio runs at most once in the life of the scene: no tick makes
\* another AudioContext and another getUserMedia request after the first,
\* whether that request is still pending or not.
C21_AudioInitOnce ==
    audio.calls <= 1


\* a <= b <= c or c <= b <= a
FixBetween(a, b, c) ==
    \/ FixLeq(a, b) /\ FixLeq(b, c)
    \/ FixLeq(c, b) /\ FixLeq(b, a)

\* C22: after a tick each current value lies between its value before the
\* tick and the target of that tick (the parameter value, raised by the audio
\* level and clamped when the tick hears one); and currentExplode never
\* exceeds 1.5 nor currentNoise 1.0.
C22_NoOvershoot ==
    /\ [][(mounted /\ frame' = frame + 1) =>
             LET heard   == paramsRef.audioEnabled /\ audio.analyser /\ LoudLevel > 0
                 explode == IF ~heard THEN paramsRef.explode
                            ELSE IF paramsRef.explode + 9 * LoudLevel <= 1500
                            THEN paramsRef.explode + 9 * LoudLevel ELSE 1500
                 noise   == IF ~heard THEN paramsRef.noise
                            ELSE IF paramsRef.noise + 8 * LoudLevel <= 1000
                            THEN paramsRef.noise + 8 * LoudLevel ELSE 1000
             IN  /\ FixBetween(physicsState.currentExplode,
                               physicsState'.currentExplode, FixOfMilli(explode))
                 /\ FixBetween(physicsState.currentNoise,
                               physicsState'.currentNoise, FixOfMilli(noise))]_vars
    /\ [](/\ FixLeq(physicsState.currentExplode, FixOfMilli(1500))
          /\ FixLeq(physicsState.currentNoise, FixOfMilli(1000)))

\* scrambled and loud for forty frames: currentExplode has come within 0.1
\* of 1.5 and currentNoise within 0.01 of 1.0, neither beyond
C22_Witness ==
    /\ mounted /\ paramsRef.isScrambled /\ paramsRef.audioEnabled /\ audio.analyser
    /\ frame > 40
    /\ FixLess(FixOfMilli(1400), physicsState.currentExplode)
    /\ FixLess(physicsState.currentExplode, FixOfMilli(1500))
    /\ FixLess(FixOfMilli(990), physicsState.currentNoise)
    /\ FixLess(physicsState.currentNoise, FixOfMilli(1000))

\* falling values: the scramble was switched off after the values had risen
C22_WitnessFalling ==
    /\ mounted /\ ~paramsRef.isScrambled /\ ~paramsRef.audioEnabled
    /\ FixLess(FixOfMilli(paramsRef.explode), physicsState.currentExplode)
    /\ FixLess(FixOfMilli(paramsRef.noise), physicsState.currentNoise)
    /\ steady > 3

=============================================================================
